---- MODULE Spec2Model ----
(***************************************************************************)
(* Model of the sentinel-agent runtime: the bounded metric buffer, the     *)
(* collect/flush loop of SentinelAgent::run, the registration handshake    *)
(* and the resource-state files it reads and writes.                       *)
(***************************************************************************)
EXTENDS Integers, Sequences, FiniteSets, TLC

(* ------------------------------ bounds -------------------------------- *)
\* Number of times the agent process is started again on the host.
MaxRestarts == 2
\* Largest collection.batch_size the configurations of the model draw.
MaxBatchSize == 3
\* Number of distinct samples the metric source hands out in one run.
MaxSamples == 4
\* Largest number of samples one collection returns.
MaxCollect == 2
MaxSaves == 2
MaxTokenCalls == 3
MaxTicks == 3
MaxUptime == 12
MaxElapsed == 10
MaxInterval == 2
NumCallers == 2

(* ------------------------- program constants -------------------------- *)
\* Config::get_batch_size: the capacity used when batch_size is not set.
DefaultBatchSize == 100
\* The fixed resource id flush_buffer substitutes when no API key is set.
TestResourceId == "test-resource-id"
\* Option::None of resource_id.  (An optional number, batch_size, is the
\* set of its values: {} for None, {n} for Some(n).)
None == "none"
\* The hostname the agent was constructed with (Config::get_hostname).
Hostname == "host-1"
\* The candidate paths of the state file, in priority order:
\* 1 = /var/lib/operion, 2 = /etc/operion, 3 = the user's config directory.
Paths == <<"var_lib", "etc", "user_config">>
PathIdx == 1..Len(Paths)

\* Resource ids: the one a state file written by an earlier run holds, and
\* the one the platform assigns to a registration of this run.
StoredResourceId == "res-stored"
AssignedResourceId == "res-assigned"

VARIABLES
    pc,           \* position of SentinelAgent::run
    api_key,      \* config.api.api_key.is_some()
    batch_size,   \* config.collection.batch_size: {} or {n}
    buffer,       \* SentinelAgent.buffer
    resource_id,  \* SentinelAgent.resource_id
    files,        \* the content found at each candidate path
    fs_mode,      \* what a write at each candidate path runs into
    next_sample,  \* identity of the next sample the metric source creates
    last,         \* the tick the loop serviced last, and how it ended
    sent_log,     \* every ApiClient::send_metrics call: the batch, the reply
    reg_calls,    \* number of ApiClient::register_resource calls made
    session,      \* SentinelAgent.session (SessionInfo::generate at start)
    reg,          \* how register_resource went in this process run
    runs,         \* one summary for each earlier process run on this host
    tmp,          \* the temporary file next to each candidate path
    perms,        \* the permission bits of the file at each candidate path
    saver,        \* position of a ResourceState::save under way, step by step
    observed,     \* what a load() of a concurrent reader finds at this instant
    now,          \* SystemTime::now() in seconds
    cache,        \* the file at OAuthManager.token_cache_path
    token_calls,  \* number of get_access_token calls made
    token_requests, \* number of requests that reached the token endpoint
    last_token_call, \* the last get_access_token call, and how it ended
    obtained,     \* the token the endpoint issued last and the cache took
    cmp,          \* one is_consistent_with call: its arguments, its result
    due,          \* the timers of run that have ticked and are not serviced yet
    in_flight,    \* the batch whose send_metrics call is awaited
    config,       \* a configuration read from a file, and what validate said
    callers       \* get_access_token calls under way on a shared cache file

\* The variables only the step-by-step model of save changes.
store_vars == <<tmp, perms, saver, observed>>

\* The variables of the agent, but for the state files.
agent_vars == <<pc, api_key, batch_size, buffer, resource_id, fs_mode,
                next_sample, last, sent_log, reg_calls, session, reg, runs>>

\* The variables of the OAuth token manager.
oauth_vars == <<now, cache, token_calls, token_requests, last_token_call,
                obtained>>

\* The variables of the loop of run taken one await at a time.
loop_vars == <<due, in_flight>>

vars == <<pc, api_key, batch_size, buffer, resource_id, files, fs_mode,
          next_sample, last, sent_log, reg_calls, session, reg, runs,
          tmp, perms, saver, observed, now, cache, token_calls,
          token_requests, last_token_call, obtained, cmp, due, in_flight,
          config, callers>>

(* ------------------------------ config -------------------------------- *)
\* Config::get_batch_size: batch_size.unwrap_or(100).
GetBatchSize(bs) == IF bs = {} THEN DefaultBatchSize ELSE CHOOSE n \in bs : TRUE

(* --------------------------- metric buffer ---------------------------- *)
RECURSIVE PopFrontWhileOver(_, _)
PopFrontWhileOver(buf, max_size) ==
    IF Len(buf) > max_size
    THEN PopFrontWhileOver(Tail(buf), max_size)
    ELSE buf

\* Variant: the eviction loop runs before the new samples are appended.
AddToBufferEvictFirst(buf, metrics, max_size) ==
    PopFrontWhileOver(buf, max_size) \o metrics

RECURSIVE PopBackWhileOver(_, _)
PopBackWhileOver(buf, max_size) ==
    IF Len(buf) > max_size
    THEN PopBackWhileOver(SubSeq(buf, 1, Len(buf) - 1), max_size)
    ELSE buf

\* Variant: pop_back in place of pop_front, the newest samples are evicted.
AddToBufferPopBack(buf, metrics, max_size) ==
    PopBackWhileOver(buf \o metrics, max_size)

\* add_to_buffer: extend, then pop from the front while over capacity.
AddToBuffer(buf, metrics, max_size) ==
    PopFrontWhileOver(buf \o metrics, max_size)

\* Variant: the elements are copied out and the deque keeps them.
DrainAllCopy(buf) ==
    [metrics |-> [i \in 1..Len(buf) |-> buf[i]], buffer |-> buf]

\* self.buffer.drain(..).collect(): every element front to back, and the
\* deque that is left.
DrainAll(buf) ==
    [metrics |-> [i \in 1..Len(buf) |-> buf[i]],
     buffer  |-> SubSeq(buf, Len(buf) + 1, Len(buf))]

\* Variant: the two string arguments change places.
CreateBatchSwapped(metrics, server_id, hostname) ==
    [server_id |-> hostname, hostname |-> server_id, metrics |-> metrics]

\* MetricService::create_batch (the creation timestamp is the wall clock and
\* is left out).
CreateBatch(metrics, server_id, hostname) ==
    [server_id |-> server_id, hostname |-> hostname, metrics |-> metrics]

(* ------------------------ resource state store ------------------------ *)
\* What a candidate path holds: no file, a file that cannot be read or
\* parsed, or a serialized ResourceState.
\* A ResourceState carries the resource id and the session of the run that
\* registered (of the session, the boot time).
AbsentFile == [kind |-> "absent", resource_id |-> None, boot_time |-> 0]
CorruptFile == [kind |-> "corrupt", resource_id |-> None, boot_time |-> 0]
StateFile(id, sess) ==
    [kind |-> "state", resource_id |-> id, boot_time |-> sess.boot_time]
\* A file holding the first part of a serialized ResourceState, or nothing
\* yet: it does not parse.
PartialFile == [kind |-> "partial", resource_id |-> None, boot_time |-> 0]

\* Variant: an existing file that does not parse is skipped like a missing
\* one.
RECURSIVE LoadFromSkipUnparsable(_, _)
LoadFromSkipUnparsable(fs, i) ==
    IF i > Len(Paths) THEN [tag |-> "None", resource_id |-> None, boot_time |-> 0]
    ELSE IF fs[i].kind # "state" THEN LoadFromSkipUnparsable(fs, i + 1)
    ELSE [tag |-> "Some", resource_id |-> fs[i].resource_id,
          boot_time |-> fs[i].boot_time]

\* Variant: the candidates are examined from the per-user path upwards.
RECURSIVE LoadFromLowest(_, _)
LoadFromLowest(fs, i) ==
    IF i < 1 THEN [tag |-> "None", resource_id |-> None, boot_time |-> 0]
    ELSE IF fs[i].kind = "absent" THEN LoadFromLowest(fs, i - 1)
    ELSE IF fs[i].kind # "state"
    THEN [tag |-> "Err", resource_id |-> None, boot_time |-> 0]
    ELSE [tag |-> "Some", resource_id |-> fs[i].resource_id,
          boot_time |-> fs[i].boot_time]
LoadLowestFirst(fs) == LoadFromLowest(fs, Len(Paths))

\* ResourceState::load: the first candidate that exists decides; a file that
\* exists but cannot be read or parsed is an error.
RECURSIVE LoadFrom(_, _)
LoadFrom(fs, i) ==
    IF i > Len(Paths)
    THEN [tag |-> "None", resource_id |-> None, boot_time |-> 0]
    ELSE IF fs[i].kind = "absent" THEN LoadFrom(fs, i + 1)
    ELSE IF fs[i].kind # "state"
    THEN [tag |-> "Err", resource_id |-> None, boot_time |-> 0]
    ELSE [tag |-> "Some", resource_id |-> fs[i].resource_id,
          boot_time |-> fs[i].boot_time]

Load(fs) == LoadFrom(fs, 1)

\* ResourceState::try_save_to_path.  mode[i] says how far the attempt gets:
\* "rw" every step succeeds; "ro" a step up to the rename fails, the file in
\* place is untouched; "noperm" the rename succeeds and set_permissions fails.
TrySaveToPath(fs, mode, i, content) ==
    IF mode[i] = "rw" THEN [ok |-> TRUE, files |-> [fs EXCEPT ![i] = content]]
    ELSE IF mode[i] = "noperm"
    THEN [ok |-> FALSE, files |-> [fs EXCEPT ![i] = content]]
    ELSE [ok |-> FALSE, files |-> fs]

\* ResourceState::save: each candidate in order until one succeeds.
RECURSIVE SaveFrom(_, _, _, _)
SaveFrom(fs, mode, content, i) ==
    IF i > Len(Paths) THEN [ok |-> FALSE, files |-> fs]
    ELSE LET r == TrySaveToPath(fs, mode, i, content)
         IN IF r.ok THEN r ELSE SaveFrom(r.files, mode, content, i + 1)

Save(fs, mode, content) == SaveFrom(fs, mode, content, 1)

(* ------------------------------ client -------------------------------- *)
\* ApiClient::send_metrics: Ok, or ApiError::Request / ApiError::Response.
SendOutcomes == {"Ok", "Request", "Response"}
\* ApiClient::register_resource: Ok, or ApiError::Request / Response / Parse.
RegisterOutcomes == {"Ok", "Request", "Response", "Parse"}

(* ------------------------------- agent -------------------------------- *)
\* Variant: a failed registration call is returned as the Err of
\* register_resource in place of being logged.
RegisterResourcePropagate(key, fs, mode, outcome, sess, assigned) ==
    IF ~key
    THEN [result |-> "Ok", resource_id |-> None, files |-> fs, calls |-> 0,
          loaded |-> "Skipped", call |-> "NoCall", saved |-> "NoSave"]
    ELSE LET loaded == Load(fs) IN
         IF loaded.tag = "Some"
         THEN [result |-> "Ok", resource_id |-> loaded.resource_id,
               files |-> fs, calls |-> 0,
               loaded |-> "Some", call |-> "NoCall", saved |-> "NoSave"]
         ELSE IF outcome = "Ok"
         THEN LET saved == Save(fs, mode, StateFile(assigned, sess)) IN
              [result |-> "Ok", resource_id |-> assigned,
               files |-> saved.files, calls |-> 1,
               loaded |-> loaded.tag, call |-> "Ok",
               saved |-> IF saved.ok THEN "Ok" ELSE "Err"]
         ELSE [result |-> "Api", resource_id |-> None, files |-> fs,
               calls |-> 1,
               loaded |-> loaded.tag, call |-> "Err", saved |-> "NoSave"]

\* Variant: the API key check at the top of register_resource is missing.
RegisterResourceNoKeyCheck(key, fs, mode, outcome, sess, assigned) ==
    LET loaded == Load(fs) IN
    IF loaded.tag = "Some"
    THEN [result |-> "Ok", resource_id |-> loaded.resource_id,
          files |-> fs, calls |-> 0,
          loaded |-> "Some", call |-> "NoCall", saved |-> "NoSave"]
    ELSE IF outcome = "Ok"
    THEN LET saved == Save(fs, mode, StateFile(assigned, sess)) IN
         [result |-> "Ok", resource_id |-> assigned,
          files |-> saved.files, calls |-> 1,
          loaded |-> loaded.tag, call |-> "Ok",
          saved |-> IF saved.ok THEN "Ok" ELSE "Err"]
    ELSE [result |-> "Ok", resource_id |-> None, files |-> fs,
          calls |-> 1,
          loaded |-> loaded.tag, call |-> "Err", saved |-> "NoSave"]

\* Variant: a stored state written under another boot time is not adopted,
\* the resource is registered again.
RegisterResourceVerifySession(key, fs, mode, outcome, sess, assigned) ==
    IF ~key
    THEN [result |-> "Ok", resource_id |-> None, files |-> fs, calls |-> 0,
          loaded |-> "Skipped", call |-> "NoCall", saved |-> "NoSave"]
    ELSE LET loaded == Load(fs) IN
         IF loaded.tag = "Some" /\ loaded.boot_time = sess.boot_time
         THEN [result |-> "Ok", resource_id |-> loaded.resource_id,
               files |-> fs, calls |-> 0,
               loaded |-> "Some", call |-> "NoCall", saved |-> "NoSave"]
         ELSE IF outcome = "Ok"
         THEN LET saved == Save(fs, mode, StateFile(assigned, sess)) IN
              [result |-> "Ok", resource_id |-> assigned,
               files |-> saved.files, calls |-> 1,
               loaded |-> loaded.tag, call |-> "Ok",
               saved |-> IF saved.ok THEN "Ok" ELSE "Err"]
         ELSE [result |-> "Ok", resource_id |-> None, files |-> fs,
               calls |-> 1,
               loaded |-> loaded.tag, call |-> "Err", saved |-> "NoSave"]

\* Variant: an error of ResourceState::load is returned with `?`.
RegisterResourceAbortOnLoadErr(key, fs, mode, outcome, sess, assigned) ==
    IF ~key
    THEN [result |-> "Ok", resource_id |-> None, files |-> fs, calls |-> 0,
          loaded |-> "Skipped", call |-> "NoCall", saved |-> "NoSave"]
    ELSE LET loaded == Load(fs) IN
         IF loaded.tag = "Some"
         THEN [result |-> "Ok", resource_id |-> loaded.resource_id,
               files |-> fs, calls |-> 0,
               loaded |-> "Some", call |-> "NoCall", saved |-> "NoSave"]
         ELSE IF loaded.tag = "Err"
         THEN [result |-> "State", resource_id |-> None, files |-> fs,
               calls |-> 0,
               loaded |-> "Err", call |-> "NoCall", saved |-> "NoSave"]
         ELSE IF outcome = "Ok"
         THEN LET saved == Save(fs, mode, StateFile(assigned, sess)) IN
              [result |-> "Ok", resource_id |-> assigned,
               files |-> saved.files, calls |-> 1,
               loaded |-> loaded.tag, call |-> "Ok",
               saved |-> IF saved.ok THEN "Ok" ELSE "Err"]
         ELSE [result |-> "Ok", resource_id |-> None, files |-> fs,
               calls |-> 1,
               loaded |-> loaded.tag, call |-> "Err", saved |-> "NoSave"]

\* SentinelAgent::register_resource, given the outcome of the registration
\* call should one be made.  It returns Ok on every path.
\* `assigned` is the resource id of the response, `sess` self.session.  The
\* fields loaded, call and saved tell which of its steps ran and how.
RegisterResource(key, fs, mode, outcome, sess, assigned) ==
    IF ~key
    THEN [result |-> "Ok", resource_id |-> None, files |-> fs, calls |-> 0,
          loaded |-> "Skipped", call |-> "NoCall", saved |-> "NoSave"]
    ELSE LET loaded == Load(fs) IN
         IF loaded.tag = "Some"
         THEN [result |-> "Ok", resource_id |-> loaded.resource_id,
               files |-> fs, calls |-> 0,
               loaded |-> "Some", call |-> "NoCall", saved |-> "NoSave"]
         ELSE IF outcome = "Ok"
         THEN LET saved == Save(fs, mode, StateFile(assigned, sess)) IN
              [result |-> "Ok", resource_id |-> assigned,
               files |-> saved.files, calls |-> 1,
               loaded |-> loaded.tag, call |-> "Ok",
               saved |-> IF saved.ok THEN "Ok" ELSE "Err"]
         ELSE [result |-> "Ok", resource_id |-> None, files |-> fs,
               calls |-> 1,
               loaded |-> loaded.tag, call |-> "Err", saved |-> "NoSave"]

\* Variants of flush_buffer, each a slip the code could have made.
\* (a) the is_empty early return is missing.
FlushBufferNoEmptyCheck(buf, rid, key, send) ==
    IF rid = None /\ key
    THEN [result |-> "Configuration", buffer |-> buf, sent |-> << >>]
    ELSE LET id == IF rid # None THEN rid ELSE TestResourceId
             drained == DrainAll(buf)
             batch == CreateBatch(drained.metrics, id, Hostname)
         IN [result |-> IF send = "Ok" THEN "Ok" ELSE "Api",
             buffer |-> drained.buffer,
             sent   |-> <<[batch |-> batch, reply |-> send]>>]

\* (b) a missing resource id is an error whether or not an API key is set.
FlushBufferRequireId(buf, rid, key, send) ==
    IF buf = << >>
    THEN [result |-> "Ok", buffer |-> buf, sent |-> << >>]
    ELSE IF rid = None
    THEN [result |-> "Configuration", buffer |-> buf, sent |-> << >>]
    ELSE LET drained == DrainAll(buf)
             batch == CreateBatch(drained.metrics, rid, Hostname)
         IN [result |-> IF send = "Ok" THEN "Ok" ELSE "Api",
             buffer |-> drained.buffer,
             sent   |-> <<[batch |-> batch, reply |-> send]>>]

\* (c) the buffer is drained before the resource id is resolved.
FlushBufferDrainFirst(buf, rid, key, send) ==
    IF buf = << >>
    THEN [result |-> "Ok", buffer |-> buf, sent |-> << >>]
    ELSE LET drained == DrainAll(buf) IN
         IF rid = None /\ key
         THEN [result |-> "Configuration", buffer |-> drained.buffer,
               sent |-> << >>]
         ELSE LET id == IF rid # None THEN rid ELSE TestResourceId
                  batch == CreateBatch(drained.metrics, id, Hostname)
              IN [result |-> IF send = "Ok" THEN "Ok" ELSE "Api",
                  buffer |-> drained.buffer,
                  sent   |-> <<[batch |-> batch, reply |-> send]>>]

\* (d) the error arm of the id check pops the sample it reports on.
FlushBufferPopOnError(buf, rid, key, send) ==
    IF buf = << >>
    THEN [result |-> "Ok", buffer |-> buf, sent |-> << >>]
    ELSE IF rid = None /\ key
    THEN [result |-> "Configuration", buffer |-> Tail(buf), sent |-> << >>]
    ELSE LET id == IF rid # None THEN rid ELSE TestResourceId
             drained == DrainAll(buf)
             batch == CreateBatch(drained.metrics, id, Hostname)
         IN [result |-> IF send = "Ok" THEN "Ok" ELSE "Api",
             buffer |-> drained.buffer,
             sent   |-> <<[batch |-> batch, reply |-> send]>>]

\* (e) a failed send is tried once more before the error is returned.
FlushBufferRetry(buf, rid, key, send) ==
    IF buf = << >>
    THEN [result |-> "Ok", buffer |-> buf, sent |-> << >>]
    ELSE IF rid = None /\ key
    THEN [result |-> "Configuration", buffer |-> buf, sent |-> << >>]
    ELSE LET id == IF rid # None THEN rid ELSE TestResourceId
             drained == DrainAll(buf)
             batch == CreateBatch(drained.metrics, id, Hostname)
             call == [batch |-> batch, reply |-> send]
         IN [result |-> IF send = "Ok" THEN "Ok" ELSE "Api",
             buffer |-> drained.buffer,
             sent   |-> IF send = "Ok" THEN <<call>> ELSE <<call, call>>]

\* (f) the samples of a batch that failed to send go back into the buffer.
FlushBufferRequeue(buf, rid, key, send) ==
    IF buf = << >>
    THEN [result |-> "Ok", buffer |-> buf, sent |-> << >>]
    ELSE IF rid = None /\ key
    THEN [result |-> "Configuration", buffer |-> buf, sent |-> << >>]
    ELSE LET id == IF rid # None THEN rid ELSE TestResourceId
             drained == DrainAll(buf)
             batch == CreateBatch(drained.metrics, id, Hostname)
         IN [result |-> IF send = "Ok" THEN "Ok" ELSE "Api",
             buffer |-> IF send = "Ok" THEN drained.buffer
                        ELSE drained.buffer \o drained.metrics,
             sent   |-> <<[batch |-> batch, reply |-> send]>>]

\* (g) the sentinel id stands in for a missing resource id also when an API
\* key is set.
FlushBufferSentinelAlways(buf, rid, key, send) ==
    IF buf = << >>
    THEN [result |-> "Ok", buffer |-> buf, sent |-> << >>]
    ELSE LET id == IF rid # None THEN rid ELSE TestResourceId
             drained == DrainAll(buf)
             batch == CreateBatch(drained.metrics, id, Hostname)
         IN [result |-> IF send = "Ok" THEN "Ok" ELSE "Api",
             buffer |-> drained.buffer,
             sent   |-> <<[batch |-> batch, reply |-> send]>>]

\* SentinelAgent::flush_buffer, given the outcome of send_metrics should it
\* be called: the Result returned, the buffer left, and the send_metrics
\* calls made (the batch handed over and the reply it got).
FlushBuffer(buf, rid, key, send) ==
    IF buf = << >>
    THEN [result |-> "Ok", buffer |-> buf, sent |-> << >>]
    ELSE IF rid = None /\ key
    THEN [result |-> "Configuration", buffer |-> buf, sent |-> << >>]
    ELSE LET id == IF rid # None THEN rid ELSE TestResourceId
             drained == DrainAll(buf)
             batch == CreateBatch(drained.metrics, id, Hostname)
         IN [result |-> IF send = "Ok" THEN "Ok" ELSE "Api",
             buffer |-> drained.buffer,
             sent   |-> <<[batch |-> batch, reply |-> send]>>]

\* The `?` after register_resource().await in run: an Err ends run.
AfterRegister(result) == IF result = "Ok" THEN "Running" ELSE "Exited"
\* The match arms of the two select! branches: both log and loop again.
\* Variant: the collection result is propagated with `?`, an Err ends run.
AfterCollectPropagate(result) == IF result = "Ok" THEN "Running" ELSE "Exited"
AfterCollect(result) == "Running"
\* Variant: the flush result is propagated with `?`, an Err ends run.
AfterFlushPropagate(result) == IF result = "Ok" THEN "Running" ELSE "Exited"
AfterFlush(result) == "Running"

\* The samples of one collection: n new samples, in the order collected.
NewSamples(n) == [i \in 1..n |-> next_sample + i - 1]

NoTick == [op |-> "none", result |-> "Ok", before |-> << >>,
           pushed |-> << >>, calls |-> 0]

\* No save is under way; no load of the reader has happened.
IdleSaver == [pc |-> "idle", idx |-> 0, content |-> AbsentFile,
              start |-> << >>, attempts |-> << >>, result |-> "none", saves |-> 0,
              last_error |-> [kind |-> "none", idx |-> 0]]
NoObservation == [tag |-> "NotRun", resource_id |-> None, kind |-> "absent",
                  at |-> "idle"]

\* The token cache file: missing, not parseable, or a StoredToken.
AbsentCache == [kind |-> "absent", access_token |-> None, expires_at |-> 0]
CorruptCache == [kind |-> "corrupt", access_token |-> None, expires_at |-> 0]
StoredToken(token, expires_at) ==
    [kind |-> "token", access_token |-> token, expires_at |-> expires_at]
\* No get_access_token call yet; no token obtained from the endpoint yet.
NoTokenCall == [at |-> 0, before |-> AbsentCache, after |-> AbsentCache,
                expires_in |-> 0,
                window |-> [access_token |-> None, expires_at |-> 0],
                request |-> "NoCall", store |-> "NoCall", result |-> "NotRun",
                token |-> None, requests |-> 0, from |-> "none"]
NoToken == [access_token |-> None, expires_at |-> 0]
\* The clock when the model starts.
StartTime == 100
\* No is_consistent_with call.
NoCompare == [ran |-> FALSE]
\* No send_metrics call is awaited.
NoBatch == << >>
\* No configuration file has been read.
NoConfig == [read |-> FALSE]
\* No get_access_token call under way.
NoCallers == << >>

\* register_resource has not run yet in this process run.
NoReg == [ran |-> 0, loaded |-> "NotRun", call |-> "NoCall", saved |-> "NoSave"]

\* The session of the first process run of the model, and the session of a
\* run before the host's last reboot.
FirstSession == [boot_time |-> 2]
EarlierBootSession == [boot_time |-> 1]

\* Registration calls made on this host so far, earlier runs included.
RECURSIVE SumCalls(_)
SumCalls(rs) == IF rs = << >> THEN 0 ELSE Head(rs).reg_calls + SumCalls(Tail(rs))
TotalRegCalls == SumCalls(runs) + reg_calls

\* The resource id the platform assigns to the next registration: a new one
\* for every registration call.
NextAssignedId ==
    IF TotalRegCalls = 0 THEN AssignedResourceId
    ELSE AssignedResourceId \o "-" \o ToString(TotalRegCalls + 1)

(* ------------------------------ actions ------------------------------- *)
InitFiles ==
    { [i \in PathIdx |-> AbsentFile],
      [i \in PathIdx |-> IF i = 1 THEN StateFile(StoredResourceId, FirstSession)
                         ELSE AbsentFile],
      [i \in PathIdx |-> IF i = 3 THEN StateFile(StoredResourceId, EarlierBootSession)
                         ELSE AbsentFile],
      [i \in PathIdx |-> IF i = 1 THEN CorruptFile
                         ELSE IF i = 2 THEN StateFile(StoredResourceId, EarlierBootSession)
                         ELSE AbsentFile] }

InitModes ==
    { [i \in PathIdx |-> "rw"],
      [i \in PathIdx |-> "ro"],
      [i \in PathIdx |-> IF i = 1 THEN "ro" ELSE "rw"],
      [i \in PathIdx |-> IF i = 1 THEN "noperm" ELSE "rw"] }

\* SentinelAgent::new, for every configuration and disk the model draws.
Init ==
    /\ pc = "Idle"
    /\ api_key \in BOOLEAN
    /\ batch_size \in {{}} \cup {{n} : n \in 0..MaxBatchSize}
    /\ buffer = << >>
    /\ resource_id = None
    /\ files \in InitFiles
    /\ fs_mode \in InitModes
    /\ next_sample = 1
    /\ last = NoTick
    /\ sent_log = << >>
    /\ reg_calls = 0
    /\ session = FirstSession
    /\ reg = NoReg
    /\ runs = << >>
    /\ tmp = [i \in PathIdx |-> AbsentFile]
    /\ perms = [i \in PathIdx |-> IF files[i].kind = "absent" THEN "none" ELSE "0600"]
    /\ saver = IdleSaver
    /\ observed = NoObservation
    /\ now = StartTime
    /\ cache = AbsentCache
    /\ token_calls = 0
    /\ token_requests = 0
    /\ last_token_call = NoTokenCall
    /\ obtained = NoToken
    /\ cmp = NoCompare
    /\ due = {}
    /\ in_flight = NoBatch
    /\ config = NoConfig
    /\ callers = NoCallers

\* run is entered: the banner is printed, registration is about to start.
Run ==
    /\ pc = "Idle"
    /\ pc' = "Registering"
    /\ UNCHANGED <<api_key, batch_size, buffer, resource_id, files, fs_mode,
                   next_sample, last, sent_log, reg_calls, session, reg, runs>>
    /\ UNCHANGED <<store_vars, oauth_vars, cmp, loop_vars, config, callers>>

\* self.register_resource().await? in run.
Register ==
    /\ pc = "Registering"
    /\ \E outcome \in RegisterOutcomes :
        LET r == RegisterResource(api_key, files, fs_mode, outcome, session,
                                  NextAssignedId) IN
        /\ resource_id' = r.resource_id
        /\ files' = r.files
        /\ reg_calls' = reg_calls + r.calls
        /\ reg' = [ran |-> reg.ran + 1, loaded |-> r.loaded, call |-> r.call,
                   saved |-> r.saved]
        /\ pc' = AfterRegister(r.result)
    /\ UNCHANGED <<api_key, batch_size, buffer, fs_mode, next_sample, last,
                   sent_log, session, runs>>
    /\ UNCHANGED <<store_vars, oauth_vars, cmp, loop_vars, config, callers>>

\* The collection_timer branch of the loop; the metric source fails.
CollectTickErr ==
    /\ pc = "Running"
    /\ last' = [op |-> "collect", result |-> "MetricCollection",
                before |-> buffer, pushed |-> << >>, calls |-> 0]
    /\ pc' = AfterCollect("MetricCollection")
    /\ UNCHANGED <<api_key, batch_size, buffer, resource_id, files, fs_mode,
                   next_sample, sent_log, reg_calls, session, reg, runs>>
    /\ UNCHANGED <<store_vars, oauth_vars, cmp, loop_vars, config, callers>>

\* The collection_timer branch of the loop; the metric source returns n
\* samples (none when the collector is disabled or no disk is included).
CollectTickOk ==
    /\ pc = "Running"
    /\ \E n \in 0..MaxCollect :
        /\ next_sample + n - 1 <= MaxSamples
        /\ LET metrics == NewSamples(n) IN
            /\ buffer' = IF metrics # << >>
                         THEN AddToBuffer(buffer, metrics, GetBatchSize(batch_size))
                         ELSE buffer
            /\ last' = [op |-> "collect", result |-> "Ok", before |-> buffer,
                        pushed |-> metrics, calls |-> 0]
        /\ next_sample' = next_sample + n
    /\ pc' = AfterCollect("Ok")
    /\ UNCHANGED <<api_key, batch_size, resource_id, files, fs_mode, sent_log,
                   reg_calls, session, reg, runs>>
    /\ UNCHANGED <<store_vars, oauth_vars, cmp, loop_vars, config, callers>>

\* The flush_timer branch of the loop.
FlushTick ==
    /\ pc = "Running"
    /\ \E send \in SendOutcomes :
        LET r == FlushBuffer(buffer, resource_id, api_key, send) IN
        /\ buffer' = r.buffer
        /\ sent_log' = sent_log \o r.sent
        /\ last' = [op |-> "flush", result |-> r.result, before |-> buffer,
                    pushed |-> << >>, calls |-> Len(r.sent)]
        /\ pc' = AfterFlush(r.result)
    /\ UNCHANGED <<api_key, batch_size, resource_id, files, fs_mode,
                   next_sample, reg_calls, session, reg, runs>>
    /\ UNCHANGED <<store_vars, oauth_vars, cmp, loop_vars, config, callers>>

Next ==
    \/ Run
    \/ Register
    \/ CollectTickErr
    \/ CollectTickOk
    \/ FlushTick

Spec == Init /\ [][Next]_vars

(* ----------------------- consecutive process runs --------------------- *)
\* What a later run can tell about an earlier one: how its registration went.
RunSummary ==
    [resource_id |-> resource_id, reg_calls |-> reg_calls,
     loaded |-> reg.loaded, call |-> reg.call, saved |-> reg.saved]

InitModesRuns ==
    { [i \in PathIdx |-> "rw"],
      [i \in PathIdx |-> "ro"],
      [i \in PathIdx |-> "noperm"],
      [i \in PathIdx |-> IF i = 1 THEN "ro" ELSE "rw"] }

\* The first start of an agent that has an API key configured.
InitRuns ==
    /\ pc = "Idle"
    /\ api_key = TRUE
    /\ batch_size = {1}
    /\ buffer = << >>
    /\ resource_id = None
    /\ files \in InitFiles
    /\ fs_mode \in InitModesRuns
    /\ next_sample = 1
    /\ last = NoTick
    /\ sent_log = << >>
    /\ reg_calls = 0
    /\ session = FirstSession
    /\ reg = NoReg
    /\ runs = << >>
    /\ tmp = [i \in PathIdx |-> AbsentFile]
    /\ perms = [i \in PathIdx |-> IF files[i].kind = "absent" THEN "none" ELSE "0600"]
    /\ saver = IdleSaver
    /\ observed = NoObservation
    /\ now = StartTime
    /\ cache = AbsentCache
    /\ token_calls = 0
    /\ token_requests = 0
    /\ last_token_call = NoTokenCall
    /\ obtained = NoToken
    /\ cmp = NoCompare
    /\ due = {}
    /\ in_flight = NoBatch
    /\ config = NoConfig
    /\ callers = NoCallers

\* The process is terminated while in the loop and main starts again:
\* SentinelAgent::new builds a fresh agent, the state files are what the
\* earlier runs left.  The host reboots before its first restart of the agent
\* (the boot time changes); later restarts are restarts of the process alone.
Restart ==
    /\ pc = "Running"
    /\ Len(runs) < MaxRestarts
    /\ runs' = Append(runs, RunSummary)
    /\ session' = [boot_time |-> IF runs = << >> THEN session.boot_time + 1
                                 ELSE session.boot_time]
    /\ pc' = "Idle"
    /\ buffer' = << >>
    /\ resource_id' = None
    /\ next_sample' = 1
    /\ last' = NoTick
    /\ sent_log' = << >>
    /\ reg_calls' = 0
    /\ reg' = NoReg
    /\ UNCHANGED <<api_key, batch_size, files, fs_mode>>
    /\ UNCHANGED <<store_vars, oauth_vars, cmp, loop_vars, config, callers>>

NextRuns ==
    \/ Next
    \/ Restart

SpecRuns == InitRuns /\ [][NextRuns]_vars

(* ---------------- save, one file-system call at a time ---------------- *)
\* The resource id in the ResourceState of the n-th save.
SavedId(n) ==
    IF n = 1 THEN AssignedResourceId
    ELSE AssignedResourceId \o "-" \o ToString(n)

\* Variant: the content is written to the final path itself.
CreateInPlace(fs, tm, i) ==
    [files |-> [fs EXCEPT ![i] = PartialFile], tmp |-> tm]

\* fs::File::create(&temp_path): the temporary file exists and is empty; the
\* file at the final path is not touched.
CreateTemp(fs, tm, i) ==
    [files |-> fs, tmp |-> [tm EXCEPT ![i] = PartialFile]]

\* file.write_all(json.as_bytes()): the whole content, or on an error some
\* first part of it.
WriteAll(tm, i, json, ok) ==
    [tm EXCEPT ![i] = IF ok THEN json ELSE PartialFile]

\* fs::rename(&temp_path, &path): the temporary file replaces the file at the
\* final path in one step and keeps the mode it was created with.
Rename(fs, tm, pm, i) ==
    [files |-> [fs EXCEPT ![i] = tm[i]],
     tmp   |-> [tm EXCEPT ![i] = AbsentFile],
     perms |-> [pm EXCEPT ![i] = "umask"]]

\* permissions.set_mode(0o600); fs::set_permissions(&path, permissions).
SetPermissions(pm, i) == [pm EXCEPT ![i] = "0600"]

\* The StateError an attempt at candidate i ends with.
NoError == [kind |-> "none", idx |-> 0]
StateError(kind, i) == [kind |-> kind, idx |-> i]

\* Variant: save returns the error of the first candidate that failed.
EndAttemptFirstError(s, fs, ok, err) ==
    LET a == [idx |-> s.idx, ok |-> ok, err |-> IF ok THEN NoError ELSE err,
              before |-> s.start[s.idx], after |-> fs[s.idx]]
        done == ok \/ s.idx = Len(Paths)
    IN [s EXCEPT !.attempts = Append(@, a),
                 !.pc = IF done THEN "idle" ELSE "create_dir",
                 !.idx = IF done THEN @ ELSE @ + 1,
                 !.last_error = IF ok \/ @ # NoError THEN @ ELSE err,
                 !.result = IF ok THEN "Ok" ELSE IF done THEN "Err" ELSE "none"]

\* try_save_to_path returns for candidate s.idx: Ok ends save, an Err is kept
\* as last_error and the loop of save goes on to the next candidate, if any.
EndAttempt(s, fs, ok, err) ==
    LET a == [idx |-> s.idx, ok |-> ok, err |-> IF ok THEN NoError ELSE err,
              before |-> s.start[s.idx], after |-> fs[s.idx]]
        done == ok \/ s.idx = Len(Paths)
    IN [s EXCEPT !.attempts = Append(@, a),
                 !.pc = IF done THEN "idle" ELSE "create_dir",
                 !.idx = IF done THEN @ ELSE @ + 1,
                 !.last_error = IF ok THEN @ ELSE err,
                 !.result = IF ok THEN "Ok" ELSE IF done THEN "Err" ELSE "none"]

\* A process with nothing but state files: no save has begun.
InitSave ==
    /\ pc = "Idle"
    /\ api_key = TRUE
    /\ batch_size = {1}
    /\ buffer = << >>
    /\ resource_id = None
    /\ files \in InitFiles
    /\ fs_mode = [i \in PathIdx |-> "rw"]
    /\ next_sample = 1
    /\ last = NoTick
    /\ sent_log = << >>
    /\ reg_calls = 0
    /\ session = FirstSession
    /\ reg = NoReg
    /\ runs = << >>
    /\ tmp = [i \in PathIdx |-> AbsentFile]
    /\ perms = [i \in PathIdx |-> IF files[i].kind = "absent" THEN "none" ELSE "0600"]
    /\ saver = IdleSaver
    /\ observed = NoObservation
    /\ now = StartTime
    /\ cache = AbsentCache
    /\ token_calls = 0
    /\ token_requests = 0
    /\ last_token_call = NoTokenCall
    /\ obtained = NoToken
    /\ cmp = NoCompare
    /\ due = {}
    /\ in_flight = NoBatch
    /\ config = NoConfig
    /\ callers = NoCallers

\* save is entered: the state is serialized once and the first candidate is
\* about to be tried.
StartSave ==
    /\ saver.pc = "idle"
    /\ saver.saves < MaxSaves
    /\ saver' = [pc |-> "create_dir", idx |-> 1,
                 content |-> StateFile(SavedId(saver.saves + 1), session),
                 start |-> files, attempts |-> << >>, result |-> "none",
                 saves |-> saver.saves + 1, last_error |-> NoError]
    /\ observed' = NoObservation
    /\ UNCHANGED <<agent_vars, loop_vars, config, callers, oauth_vars, cmp, files, tmp, perms>>

\* fs::create_dir_all(parent)?
CreateDirStep ==
    /\ saver.pc = "create_dir"
    /\ \E ok \in BOOLEAN :
        saver' = IF ok THEN [saver EXCEPT !.pc = "create"]
                 ELSE EndAttempt(saver, files, FALSE,
                                 StateError("CreateDirectoryError", saver.idx))
    /\ observed' = NoObservation
    /\ UNCHANGED <<agent_vars, loop_vars, config, callers, oauth_vars, cmp, files, tmp, perms>>

\* fs::File::create(&temp_path)?
CreateTempStep ==
    /\ saver.pc = "create"
    /\ \E ok \in BOOLEAN :
        IF ok
        THEN LET d == CreateTemp(files, tmp, saver.idx) IN
             /\ files' = d.files
             /\ tmp' = d.tmp
             /\ saver' = [saver EXCEPT !.pc = "write"]
        ELSE /\ saver' = EndAttempt(saver, files, FALSE,
                                 StateError("WriteError", saver.idx))
             /\ UNCHANGED <<files, tmp>>
    /\ observed' = NoObservation
    /\ UNCHANGED <<agent_vars, loop_vars, config, callers, oauth_vars, cmp, perms>>

\* file.write_all(json.as_bytes())?
WriteStep ==
    /\ saver.pc = "write"
    /\ \E ok \in BOOLEAN :
        /\ tmp' = WriteAll(tmp, saver.idx, saver.content, ok)
        /\ saver' = IF ok THEN [saver EXCEPT !.pc = "sync"]
                    ELSE EndAttempt(saver, files, FALSE,
                                 StateError("WriteError", saver.idx))
    /\ observed' = NoObservation
    /\ UNCHANGED <<agent_vars, loop_vars, config, callers, oauth_vars, cmp, files, perms>>

\* file.sync_all()?
SyncStep ==
    /\ saver.pc = "sync"
    /\ \E ok \in BOOLEAN :
        saver' = IF ok THEN [saver EXCEPT !.pc = "rename"]
                 ELSE EndAttempt(saver, files, FALSE,
                                 StateError("WriteError", saver.idx))
    /\ observed' = NoObservation
    /\ UNCHANGED <<agent_vars, loop_vars, config, callers, oauth_vars, cmp, files, tmp, perms>>

\* fs::rename(&temp_path, &path)?
RenameStep ==
    /\ saver.pc = "rename"
    /\ \E ok \in BOOLEAN :
        IF ok
        THEN LET d == Rename(files, tmp, perms, saver.idx) IN
             /\ files' = d.files
             /\ tmp' = d.tmp
             /\ perms' = d.perms
             /\ saver' = [saver EXCEPT !.pc = "set_permissions"]
        ELSE /\ saver' = EndAttempt(saver, files, FALSE,
                                 StateError("WriteError", saver.idx))
             /\ UNCHANGED <<files, tmp, perms>>
    /\ observed' = NoObservation
    /\ UNCHANGED <<agent_vars, loop_vars, config, callers, oauth_vars, cmp>>

\* fs::metadata(&path)? and fs::set_permissions(&path, permissions)?, then
\* Ok(()).
SetPermissionsStep ==
    /\ saver.pc = "set_permissions"
    /\ \E ok \in BOOLEAN :
        /\ perms' = IF ok THEN SetPermissions(perms, saver.idx) ELSE perms
        /\ saver' = EndAttempt(saver, files, ok,
                              StateError("PermissionError", saver.idx))
    /\ observed' = NoObservation
    /\ UNCHANGED <<agent_vars, loop_vars, config, callers, oauth_vars, cmp, files, tmp>>

\* Another process calls ResourceState::load at any moment; what it found is
\* kept until the saver makes its next file-system call.
ReaderLoad ==
    /\ observed = NoObservation
    /\ LET r == Load(files)
           found == {i \in PathIdx : files[i].kind # "absent"}
       IN observed' = [tag |-> r.tag, resource_id |-> r.resource_id,
                       kind |-> IF found = {} THEN "absent"
                                ELSE files[CHOOSE i \in found :
                                             \A j \in found : i <= j].kind,
                       at |-> saver.pc]
    /\ UNCHANGED <<agent_vars, loop_vars, config, callers, oauth_vars, cmp, files, tmp, perms, saver>>

NextSave ==
    \/ StartSave
    \/ CreateDirStep
    \/ CreateTempStep
    \/ WriteStep
    \/ SyncStep
    \/ RenameStep
    \/ SetPermissionsStep
    \/ ReaderLoad

SpecSave == InitSave /\ [][NextSave]_vars

(* ------------------------------- oauth -------------------------------- *)
\* The seconds cache_token takes off the lifetime of a token.
SafetyBuffer == 60
\* TokenResponse.expires_in, as the endpoint may answer.
ExpiresIn == {30, 90, 120}
\* Seconds between sending the token request and having its response.
Latencies == {0, 30}
\* request_new_token: Ok, or OAuthError::Http / TokenRequest / Parse.
RequestOutcomes == {"Ok", "Http", "TokenRequest", "Parse"}
\* cache_token: Ok, or an OAuthError::Storage from create_dir_all, from
\* fs::write before or after it truncated the file, or from the permissions.
StoreOutcomes == {"Ok", "CreateDir", "WriteOpen", "WritePartial", "Permissions"}

\* load_cached_token: the StoredToken, or an Err for a missing or unparsable
\* file.
LoadCachedToken(c) == [ok |-> c.kind = "token", token |-> c]

\* Variant: a token counts as expired only after its expiry.
IsTokenExpiredStrict(token, t) == t > token.expires_at
\* Variant: a token counts as expired a safety buffer before its expiry.
IsTokenExpiredEarly(token, t) == t + SafetyBuffer >= token.expires_at

\* is_token_expired.
IsTokenExpired(token, t) == t >= token.expires_at

\* cache_token: what is in the cache file afterwards, and Ok or Err.
CacheToken(c, resp, t, store) ==
    LET stored == StoredToken(resp.access_token,
                              t + resp.expires_in - SafetyBuffer)
    IN CASE store = "Ok"           -> [ok |-> TRUE,  cache |-> stored]
         [] store = "CreateDir"    -> [ok |-> FALSE, cache |-> c]
         [] store = "WriteOpen"    -> [ok |-> FALSE, cache |-> c]
         [] store = "WritePartial" -> [ok |-> FALSE, cache |-> CorruptCache]
         [] store = "Permissions"  -> [ok |-> FALSE, cache |-> stored]

\* Variant: the token endpoint is asked on every call.
GetAccessTokenAlwaysRequest(c, t, req, lat, resp, store) ==
    IF req # "Ok"
    THEN [result |-> req, token |-> None, cache |-> c, requests |-> 1,
          from |-> "none", request |-> req, store |-> "NoCall"]
    ELSE LET w == CacheToken(c, resp, t + lat, store) IN
         IF ~w.ok
         THEN [result |-> "Storage", token |-> None, cache |-> w.cache,
               requests |-> 1, from |-> "none", request |-> req, store |-> store]
         ELSE [result |-> "Ok", token |-> resp.access_token, cache |-> w.cache,
               requests |-> 1, from |-> "endpoint", request |-> req,
               store |-> store]

\* Variant: a failure of cache_token is logged and the token returned.
GetAccessTokenIgnoreStorage(c, t, req, lat, resp, store) ==
    LET cached == LoadCachedToken(c) IN
    IF cached.ok /\ ~IsTokenExpired(cached.token, t)
    THEN [result |-> "Ok", token |-> cached.token.access_token, cache |-> c,
          requests |-> 0, from |-> "cache", request |-> "NoCall",
          store |-> "NoCall"]
    ELSE IF req # "Ok"
    THEN [result |-> req, token |-> None, cache |-> c, requests |-> 1,
          from |-> "none", request |-> req, store |-> "NoCall"]
    ELSE LET w == CacheToken(c, resp, t + lat, store) IN
         [result |-> "Ok", token |-> resp.access_token, cache |-> w.cache,
          requests |-> 1, from |-> "endpoint", request |-> req, store |-> store]

\* OAuthManager::get_access_token, called at t, its token request answered
\* lat seconds later: is_token_expired reads the clock before the request,
\* cache_token after it.
GetAccessToken(c, t, req, lat, resp, store) ==
    LET cached == LoadCachedToken(c) IN
    IF cached.ok /\ ~IsTokenExpired(cached.token, t)
    THEN [result |-> "Ok", token |-> cached.token.access_token, cache |-> c,
          requests |-> 0, from |-> "cache", request |-> "NoCall",
          store |-> "NoCall"]
    ELSE IF req # "Ok"
    THEN [result |-> req, token |-> None, cache |-> c, requests |-> 1,
          from |-> "none", request |-> req, store |-> "NoCall"]
    ELSE LET w == CacheToken(c, resp, t + lat, store) IN
         IF ~w.ok
         THEN [result |-> "Storage", token |-> None, cache |-> w.cache,
               requests |-> 1, from |-> "none", request |-> req, store |-> store]
         ELSE [result |-> "Ok", token |-> resp.access_token, cache |-> w.cache,
               requests |-> 1, from |-> "endpoint", request |-> req,
               store |-> store]

\* The access token the endpoint issues to its n-th request.
IssuedToken(n) == "token-" \o ToString(n)
OldToken == "token-old"

\* An OAuthManager over a cache directory that is empty, or holds a file
\* that does not parse, or a token of an earlier run, expired or not.
InitOAuth ==
    /\ pc = "Idle"
    /\ api_key = TRUE
    /\ batch_size = {1}
    /\ buffer = << >>
    /\ resource_id = None
    /\ files = [i \in PathIdx |-> AbsentFile]
    /\ fs_mode = [i \in PathIdx |-> "rw"]
    /\ next_sample = 1
    /\ last = NoTick
    /\ sent_log = << >>
    /\ reg_calls = 0
    /\ session = FirstSession
    /\ reg = NoReg
    /\ runs = << >>
    /\ tmp = [i \in PathIdx |-> AbsentFile]
    /\ perms = [i \in PathIdx |-> "none"]
    /\ saver = IdleSaver
    /\ observed = NoObservation
    /\ now = StartTime
    /\ cache \in {AbsentCache, CorruptCache, StoredToken(OldToken, StartTime),
                  StoredToken(OldToken, StartTime + 30)}
    /\ token_calls = 0
    /\ token_requests = 0
    /\ last_token_call = NoTokenCall
    /\ obtained = NoToken
    /\ cmp = NoCompare
    /\ due = {}
    /\ in_flight = NoBatch
    /\ config = NoConfig
    /\ callers = NoCallers

\* One get_access_token call, from its first line to its return.
GetAccessTokenCall ==
    /\ token_calls < MaxTokenCalls
    /\ \E req \in RequestOutcomes, store \in StoreOutcomes, e \in ExpiresIn,
          lat \in Latencies :
        LET resp == [access_token |-> IssuedToken(token_requests + 1),
                     expires_in |-> e]
            r == GetAccessToken(cache, now, req, lat, resp, store)
        IN /\ cache' = r.cache
           /\ now' = now + lat * r.requests
           /\ token_requests' = token_requests + r.requests
           /\ last_token_call' = [at |-> now, before |-> cache,
                                  after |-> r.cache, expires_in |-> e,
                                  window |-> obtained, request |-> r.request,
                                  store |-> r.store, result |-> r.result,
                                  token |-> r.token, requests |-> r.requests,
                                  from |-> r.from]
           /\ obtained' = IF r.from = "endpoint"
                          THEN [access_token |-> r.token,
                                expires_at |-> r.cache.expires_at]
                          ELSE obtained
    /\ token_calls' = token_calls + 1
    /\ UNCHANGED <<agent_vars, loop_vars, config, callers, files, store_vars, cmp>>

\* Time passes between two calls.
Tick ==
    /\ now < StartTime + 30 * MaxTicks
    /\ now' = now + 30
    /\ UNCHANGED <<agent_vars, loop_vars, config, callers, files, store_vars, cache, token_calls,
                   token_requests, last_token_call, obtained, cmp>>

\* OAuthManager::clear_cached_token: the cache file is removed, the token
\* in it is no longer the one in use.
ClearCachedToken ==
    /\ cache.kind # "absent"
    /\ cache' = AbsentCache
    /\ obtained' = NoToken
    /\ UNCHANGED <<agent_vars, loop_vars, config, callers, files, store_vars, now, token_calls,
                   token_requests, last_token_call, cmp>>

NextOAuth ==
    \/ GetAccessTokenCall
    \/ Tick
    \/ ClearCachedToken

SpecOAuth == InitOAuth /\ [][NextOAuth]_vars

(* ------------------------------ session ------------------------------- *)
Abs(x) == IF x < 0 THEN -x ELSE x

\* (elapsed_seconds as f64 * 0.1) as i64 + 5: the cast cuts the fraction off.
Tolerance(elapsed_seconds) == (elapsed_seconds \div 10) + 5

\* Variant: the uptime is compared also when the process start times differ.
IsConsistentWithNoRestart(self, previous, elapsed_seconds) ==
    IF self.boot_time # previous.boot_time THEN FALSE
    ELSE LET expected_uptime == previous.uptime_seconds + elapsed_seconds
             uptime_diff == Abs(self.uptime_seconds - expected_uptime)
         IN uptime_diff <= Tolerance(elapsed_seconds)

\* SessionInfo::is_consistent_with.
IsConsistentWith(self, previous, elapsed_seconds) ==
    IF self.boot_time # previous.boot_time THEN FALSE
    ELSE IF self.agent_start_time # previous.agent_start_time THEN TRUE
    ELSE LET expected_uptime == previous.uptime_seconds + elapsed_seconds
             uptime_diff == Abs(self.uptime_seconds - expected_uptime)
         IN uptime_diff <= Tolerance(elapsed_seconds)

\* The SessionInfo values the comparison is tried on.
Sessions ==
    [boot_time : {1, 2}, agent_start_time : {3, 4},
     uptime_seconds : 0..MaxUptime]

\* Two sessions and an elapsed time, not yet compared.
InitSession ==
    /\ pc = "Idle"
    /\ api_key = TRUE
    /\ batch_size = {1}
    /\ buffer = << >>
    /\ resource_id = None
    /\ files = [i \in PathIdx |-> AbsentFile]
    /\ fs_mode = [i \in PathIdx |-> "rw"]
    /\ next_sample = 1
    /\ last = NoTick
    /\ sent_log = << >>
    /\ reg_calls = 0
    /\ session = FirstSession
    /\ reg = NoReg
    /\ runs = << >>
    /\ tmp = [i \in PathIdx |-> AbsentFile]
    /\ perms = [i \in PathIdx |-> "none"]
    /\ saver = IdleSaver
    /\ observed = NoObservation
    /\ now = StartTime
    /\ cache = AbsentCache
    /\ token_calls = 0
    /\ token_requests = 0
    /\ last_token_call = NoTokenCall
    /\ obtained = NoToken
    /\ cmp \in [ran : {FALSE}, self : Sessions, previous : Sessions,
                elapsed_seconds : 0..MaxElapsed, result : {FALSE}]
    /\ due = {}
    /\ in_flight = NoBatch
    /\ config = NoConfig
    /\ callers = NoCallers

\* self.is_consistent_with(&previous, elapsed_seconds).
Compare ==
    /\ ~cmp.ran
    /\ cmp' = [cmp EXCEPT !.ran = TRUE,
                          !.result = IsConsistentWith(cmp.self, cmp.previous,
                                                      cmp.elapsed_seconds)]
    /\ UNCHANGED <<agent_vars, loop_vars, config, callers, files, store_vars, oauth_vars>>

NextSession == Compare

SpecSession == InitSession /\ [][NextSession]_vars

(* ------------------- the loop of run, step by step -------------------- *)
\* The two interval timers of run.
Timers == {"collection", "flush"}

\* Variant: each handler is spawned as a task of its own, a trigger is
\* serviced while an earlier handler is still at an await or in a push.
AtSelectOrInHandler(p) == p \in {"Select", "Collecting", "Trimming", "Sending"}
\* select! is polled at the top of the loop only: the arm of the branch it
\* picked is awaited inline, and the loop comes back to select! after it.
AtSelect(p) == p = "Select"

\* run has registered and built its timers; it is entering the loop.
InitLoop ==
    /\ pc = "Select"
    /\ api_key \in BOOLEAN
    /\ batch_size \in {{}} \cup {{n} : n \in 0..MaxBatchSize}
    /\ buffer = << >>
    /\ resource_id \in IF api_key THEN {StoredResourceId, AssignedResourceId}
                       ELSE {None}
    /\ files = [i \in PathIdx |-> AbsentFile]
    /\ fs_mode = [i \in PathIdx |-> "rw"]
    /\ next_sample = 1
    /\ last = NoTick
    /\ sent_log = << >>
    /\ reg_calls = 0
    /\ session = FirstSession
    /\ reg = NoReg
    /\ runs = << >>
    /\ tmp = [i \in PathIdx |-> AbsentFile]
    /\ perms = [i \in PathIdx |-> "none"]
    /\ saver = IdleSaver
    /\ observed = NoObservation
    /\ now = StartTime
    /\ cache = AbsentCache
    /\ token_calls = 0
    /\ token_requests = 0
    /\ last_token_call = NoTokenCall
    /\ obtained = NoToken
    /\ cmp = NoCompare
    /\ due = {}
    /\ in_flight = NoBatch
    /\ config = NoConfig
    /\ callers = NoCallers

\* A period of a timer elapses, wherever the loop is: its next tick() is
\* ready.
TimerFires(t) ==
    /\ t \notin due
    /\ due' = due \cup {t}
    /\ UNCHANGED <<agent_vars, files, store_vars, oauth_vars, cmp, in_flight,
                   config, callers>>

\* select! takes the collection branch: collect_metrics is awaited.
SelectCollection ==
    /\ AtSelect(pc)
    /\ "collection" \in due
    /\ due' = due \ {"collection"}
    /\ pc' = "Collecting"
    /\ UNCHANGED <<api_key, batch_size, buffer, resource_id, fs_mode,
                   next_sample, last, sent_log, reg_calls, session, reg, runs>>
    /\ UNCHANGED <<files, store_vars, oauth_vars, cmp, in_flight, config,
                   callers>>

\* collect_metrics returns an Err, or no sample: nothing is pushed.
CollectNothing ==
    /\ pc = "Collecting"
    /\ pc' = "Select"
    /\ UNCHANGED <<api_key, batch_size, buffer, resource_id, fs_mode,
                   next_sample, last, sent_log, reg_calls, session, reg, runs>>
    /\ UNCHANGED <<files, store_vars, oauth_vars, cmp, loop_vars, config,
                   callers>>

\* collect_metrics returns samples; add_to_buffer extends the buffer.
CollectExtend ==
    /\ pc = "Collecting"
    /\ \E n \in 1..MaxCollect :
        /\ next_sample + n - 1 <= MaxSamples
        /\ buffer' = buffer \o NewSamples(n)
        /\ next_sample' = next_sample + n
    /\ pc' = "Trimming"
    /\ UNCHANGED <<api_key, batch_size, resource_id, fs_mode, last, sent_log,
                   reg_calls, session, reg, runs>>
    /\ UNCHANGED <<files, store_vars, oauth_vars, cmp, loop_vars, config,
                   callers>>

\* add_to_buffer, one turn of its while loop.
TrimPopFront ==
    /\ pc = "Trimming"
    /\ Len(buffer) > GetBatchSize(batch_size)
    /\ buffer' = Tail(buffer)
    /\ UNCHANGED <<pc, api_key, batch_size, resource_id, fs_mode, next_sample,
                   last, sent_log, reg_calls, session, reg, runs>>
    /\ UNCHANGED <<files, store_vars, oauth_vars, cmp, loop_vars, config,
                   callers>>

\* add_to_buffer returns, the arm ends.
TrimDone ==
    /\ pc = "Trimming"
    /\ Len(buffer) <= GetBatchSize(batch_size)
    /\ pc' = "Select"
    /\ UNCHANGED <<api_key, batch_size, buffer, resource_id, fs_mode,
                   next_sample, last, sent_log, reg_calls, session, reg, runs>>
    /\ UNCHANGED <<files, store_vars, oauth_vars, cmp, loop_vars, config,
                   callers>>

\* select! takes the flush branch: flush_buffer up to its await of
\* send_metrics, or to its return when there is nothing to send.
SelectFlush ==
    /\ AtSelect(pc)
    /\ "flush" \in due
    /\ due' = due \ {"flush"}
    /\ LET r == FlushBuffer(buffer, resource_id, api_key, "Ok") IN
        IF r.sent = << >>
        THEN /\ pc' = "Select"
             /\ UNCHANGED <<buffer, in_flight>>
        ELSE /\ pc' = "Sending"
             /\ buffer' = r.buffer
             /\ in_flight' = <<r.sent[1].batch>>
    /\ UNCHANGED <<api_key, batch_size, resource_id, fs_mode, next_sample,
                   last, sent_log, reg_calls, session, reg, runs>>
    /\ UNCHANGED <<files, store_vars, oauth_vars, cmp, config, callers>>

\* send_metrics returns, flush_buffer with it, the arm ends.
SendDone ==
    /\ pc = "Sending"
    /\ in_flight # NoBatch
    /\ \E send \in SendOutcomes :
        sent_log' = sent_log \o <<[batch |-> in_flight[1], reply |-> send]>>
    /\ in_flight' = NoBatch
    /\ pc' = "Select"
    /\ UNCHANGED <<api_key, batch_size, buffer, resource_id, fs_mode,
                   next_sample, last, reg_calls, session, reg, runs>>
    /\ UNCHANGED <<files, store_vars, oauth_vars, cmp, due, config, callers>>

NextLoop ==
    \/ \E t \in Timers : TimerFires(t)
    \/ SelectCollection
    \/ CollectNothing
    \/ CollectExtend
    \/ TrimPopFront
    \/ TrimDone
    \/ SelectFlush
    \/ SendDone

SpecLoop == InitLoop /\ [][NextLoop]_vars

(* ------------- get_access_token, callers sharing a cache -------------- *)
\* OAuthManagers built over the same token_cache_path, each in a task or a
\* process of its own.
Callers == 1..NumCallers
IdleCaller == [pc |-> "Idle", access_token |-> None, expires_in |-> 0,
               torn |-> FALSE, result |-> "NotRun", from |-> "none"]
\* Lifetimes that outlast the safety buffer: the token cached is valid.
LongExpiresIn == {e \in ExpiresIn : e > SafetyBuffer}

InitOAuthRace ==
    /\ pc = "Idle"
    /\ api_key = TRUE
    /\ batch_size = {1}
    /\ buffer = << >>
    /\ resource_id = None
    /\ files = [i \in PathIdx |-> AbsentFile]
    /\ fs_mode = [i \in PathIdx |-> "rw"]
    /\ next_sample = 1
    /\ last = NoTick
    /\ sent_log = << >>
    /\ reg_calls = 0
    /\ session = FirstSession
    /\ reg = NoReg
    /\ runs = << >>
    /\ tmp = [i \in PathIdx |-> AbsentFile]
    /\ perms = [i \in PathIdx |-> "none"]
    /\ saver = IdleSaver
    /\ observed = NoObservation
    /\ now = StartTime
    /\ cache \in {AbsentCache, CorruptCache, StoredToken(OldToken, StartTime),
                  StoredToken(OldToken, StartTime + 30)}
    /\ token_calls = 0
    /\ token_requests = 0
    /\ last_token_call = NoTokenCall
    /\ obtained = NoToken
    /\ cmp = NoCompare
    /\ due = {}
    /\ in_flight = NoBatch
    /\ config = NoConfig
    /\ callers = [c \in Callers |-> IdleCaller]

\* A caller between truncating the cache file and writing its content.
Writing(c) == callers[c].pc = "Write"

\* get_access_token is entered.
CallGetAccessToken(c) ==
    /\ callers[c].pc = "Idle"
    /\ callers' = [callers EXCEPT ![c].pc = "Load"]
    /\ token_calls' = token_calls + 1
    /\ UNCHANGED <<agent_vars, loop_vars, config, files, store_vars, now, cache,
                   token_requests, last_token_call, obtained, cmp>>

\* load_cached_token and is_token_expired: the file as it is on disk at
\* this moment, a valid token in it ends the call.
LoadCachedTokenStep(c) ==
    /\ callers[c].pc = "Load"
    /\ LET cached == LoadCachedToken(cache) IN
       callers' =
           IF cached.ok /\ ~IsTokenExpired(cached.token, now)
           THEN [callers EXCEPT ![c].pc = "Done", ![c].result = "Ok",
                                ![c].access_token = cached.token.access_token,
                                ![c].from = "cache"]
           ELSE [callers EXCEPT ![c].pc = "Request",
                                ![c].torn = \E d \in Callers \ {c} : Writing(d)]
    /\ UNCHANGED <<agent_vars, loop_vars, config, files, store_vars, oauth_vars,
                   cmp>>

\* request_new_token: the endpoint is asked, and answers or not.
RequestNewToken(c) ==
    /\ callers[c].pc = "Request"
    /\ token_requests' = token_requests + 1
    /\ \/ \E e \in LongExpiresIn :
            callers' = [callers EXCEPT
                            ![c].pc = "Cache",
                            ![c].access_token = IssuedToken(token_requests + 1),
                            ![c].expires_in = e]
       \/ callers' = [callers EXCEPT ![c].pc = "Done", ![c].result = "Http"]
    /\ UNCHANGED <<agent_vars, loop_vars, config, files, store_vars, now, cache,
                   token_calls, last_token_call, obtained, cmp>>

\* cache_token, fs::write opening the file: it is truncated.
CacheTokenOpen(c) ==
    /\ callers[c].pc = "Cache"
    /\ LET resp == [access_token |-> callers[c].access_token,
                    expires_in |-> callers[c].expires_in]
       IN cache' = CacheToken(cache, resp, now, "WritePartial").cache
    /\ callers' = [callers EXCEPT ![c].pc = "Write"]
    /\ UNCHANGED <<agent_vars, loop_vars, config, files, store_vars, now,
                   token_calls, token_requests, last_token_call, obtained, cmp>>

\* cache_token, fs::write writing the content, then the permissions and the
\* return of get_access_token.
CacheTokenWrite(c) ==
    /\ callers[c].pc = "Write"
    /\ LET resp == [access_token |-> callers[c].access_token,
                    expires_in |-> callers[c].expires_in]
       IN cache' = CacheToken(cache, resp, now, "Ok").cache
    /\ callers' = [callers EXCEPT ![c].pc = "Done", ![c].result = "Ok",
                                  ![c].from = "endpoint"]
    /\ UNCHANGED <<agent_vars, loop_vars, config, files, store_vars, now,
                   token_calls, token_requests, last_token_call, obtained, cmp>>

NextOAuthRace ==
    \E c \in Callers :
        \/ CallGetAccessToken(c)
        \/ LoadCachedTokenStep(c)
        \/ RequestNewToken(c)
        \/ CacheTokenOpen(c)
        \/ CacheTokenWrite(c)

SpecOAuthRace == InitOAuthRace /\ [][NextOAuthRace]_vars

(* ------------------------- config validation -------------------------- *)
\* Config::get_flush_interval_seconds: flush_interval_seconds.unwrap_or(10).
DefaultFlushInterval == 10
GetFlushIntervalSeconds(c) ==
    IF c.flush_interval_seconds = {} THEN DefaultFlushInterval
    ELSE CHOOSE n \in c.flush_interval_seconds : TRUE

\* str::trim on the strings the model draws for the API key.
Trim(str) == IF str = " " THEN "" ELSE str

\* Config::validate: Ok, or the message of ConfigError::Validation.
Validate(c) ==
    IF c.agent_id = "" THEN "Agent ID cannot be empty"
    ELSE IF c.endpoint = "" THEN "API endpoint cannot be empty"
    ELSE IF c.interval_seconds = 0
    THEN "Collection interval must be greater than 0"
    ELSE IF \E k \in c.api_key : Trim(k) = "" THEN "API key cannot be empty"
    ELSE "Ok"

\* tokio::time::interval(Duration::from_secs(n)) panics on a zero period.
Interval(n) == IF n = 0 THEN "Panic" ELSE "Built"

\* The two timers run builds before its loop.
BuildTimers(c) ==
    IF Interval(c.interval_seconds) = "Panic" THEN "Panic"
    ELSE Interval(GetFlushIntervalSeconds(c))

\* The configuration files the model draws: what serde_yaml parses into a
\* Config.
Configs ==
    [agent_id : {"", "test-agent"},
     endpoint : {"", "https://api.example.com"},
     interval_seconds : 0..MaxInterval,
     flush_interval_seconds : {{}} \cup {{n} : n \in 0..MaxInterval},
     api_key : {{}, {" "}, {"test-api-key"}}]

\* A configuration file, not yet read.
InitConfig ==
    /\ pc = "Idle"
    /\ api_key = TRUE
    /\ batch_size = {1}
    /\ buffer = << >>
    /\ resource_id = None
    /\ files = [i \in PathIdx |-> AbsentFile]
    /\ fs_mode = [i \in PathIdx |-> "rw"]
    /\ next_sample = 1
    /\ last = NoTick
    /\ sent_log = << >>
    /\ reg_calls = 0
    /\ session = FirstSession
    /\ reg = NoReg
    /\ runs = << >>
    /\ tmp = [i \in PathIdx |-> AbsentFile]
    /\ perms = [i \in PathIdx |-> "none"]
    /\ saver = IdleSaver
    /\ observed = NoObservation
    /\ now = StartTime
    /\ cache = AbsentCache
    /\ token_calls = 0
    /\ token_requests = 0
    /\ last_token_call = NoTokenCall
    /\ obtained = NoToken
    /\ cmp = NoCompare
    /\ due = {}
    /\ in_flight = NoBatch
    /\ config \in [read : {FALSE}, file : Configs, verdict : {"none"},
                   timers : {"none"}]
    /\ callers = NoCallers

\* Config::load_from_file: parse, then validate.
LoadFromFile ==
    /\ ~config.read
    /\ config' = [config EXCEPT !.read = TRUE, !.verdict = Validate(config.file)]
    /\ UNCHANGED <<agent_vars, files, store_vars, oauth_vars, cmp, loop_vars,
                   callers>>

\* run, past registration, builds collection_timer and flush_timer from the
\* accepted configuration.
StartTimers ==
    /\ config.read
    /\ config.verdict = "Ok"
    /\ config.timers = "none"
    /\ config' = [config EXCEPT !.timers = BuildTimers(config.file)]
    /\ UNCHANGED <<agent_vars, files, store_vars, oauth_vars, cmp, loop_vars,
                   callers>>

NextConfig ==
    \/ LoadFromFile
    \/ StartTimers

SpecConfig == InitConfig /\ [][NextConfig]_vars

\* run awaits register_resource right after its banner, and every network
\* call of register_resource has a timeout: both steps do happen.
FairSpec == Spec /\ WF_vars(Run) /\ WF_vars(Register)

\* flush_timer is an interval: in the loop it keeps ticking, and select!
\* does not starve a branch that is ready.
FairFlush == Spec /\ WF_vars(FlushTick)

TypeOK ==
    /\ pc \in {"Idle", "Registering", "Running", "Exited", "Select",
              "Collecting", "Trimming", "Sending"}
    /\ api_key \in BOOLEAN
    /\ resource_id \in {None, StoredResourceId, AssignedResourceId}
                       \cup {AssignedResourceId \o "-" \o ToString(k) :
                                 k \in 2..(MaxRestarts + 1)}
    /\ Len(runs) <= MaxRestarts
    /\ next_sample \in 1..(MaxSamples + 1)
    /\ Len(buffer) <= MaxSamples
    /\ reg_calls \in 0..1
    /\ saver.pc \in {"idle", "create_dir", "create", "write", "sync", "rename",
                    "set_permissions"}
    /\ saver.saves \in 0..MaxSaves
    /\ Len(saver.attempts) <= Len(Paths)
    /\ \A i \in PathIdx : perms[i] \in {"none", "umask", "0600"}
    /\ \A i \in PathIdx : tmp[i].kind \in {"absent", "partial", "state"}

(* ------------------------------ helpers ------------------------------- *)
Range(seq) == {seq[i] : i \in 1..Len(seq)}
Min(a, b) == IF a <= b THEN a ELSE b
Capacity == GetBatchSize(batch_size)
\* The send_metrics calls whose batch contains sample s.
CallsWith(s) == {i \in 1..Len(sent_log) : s \in Range(sent_log[i].batch.metrics)}
LastCall == sent_log[Len(sent_log)]
FlushedNonEmpty == last.op = "flush" /\ last.before # << >>

(* ------------------------------- claims ------------------------------- *)
\* C1: between ticks, after any sequence of collection and flush ticks, the
\* buffer holds at most batch_size samples (100 when batch_size is not set).
C1_BufferWithinCapacity ==
    Len(buffer) <= (IF batch_size = {} THEN 100 ELSE CHOOSE n \in batch_size : TRUE)

\* A push that overflowed, after an earlier flush, left the buffer full.
C1_Witness ==
    /\ last.op = "collect"
    /\ Len(last.before) + Len(last.pushed) > Capacity
    /\ Len(buffer) = Capacity
    /\ Capacity > 0
    /\ sent_log # << >>

\* C2: a push leaves the buffer equal to the last min(capacity, n) elements
\* of (old buffer followed by the pushed samples), n their combined length,
\* so the oldest are evicted first and no surviving pair is reordered;
\* capacity 5 and ten distinct items pushed leaves items 6..10 in order.
C2_PushKeepsNewest ==
    /\ (last.op = "collect" /\ last.pushed # << >>) =>
           LET all == last.before \o last.pushed
               n == Len(all)
               k == Min(Capacity, n)
           IN /\ buffer = SubSeq(all, n - k + 1, n)
              /\ \A i, j \in 1..Len(buffer) : i < j => buffer[i] < buffer[j]
    /\ AddToBuffer(<< >>, <<1, 2, 3, 4, 5, 6, 7, 8, 9, 10>>, 5) = <<6, 7, 8, 9, 10>>

\* A push of several samples onto a non-empty buffer overflowed and samples
\* of both the old buffer and the push survive.
C2_Witness ==
    /\ last.op = "collect"
    /\ Len(last.pushed) >= 2
    /\ Len(last.before) + Len(last.pushed) > Capacity
    /\ Range(buffer) \cap Range(last.before) # {}
    /\ Range(last.pushed) \subseteq Range(buffer)

\* C3: the drain of a flush hands over the whole buffer content in arrival
\* order and leaves the buffer empty, and a drain right after it returns the
\* empty sequence.
C3_DrainAllOnce ==
    (last.op = "flush" /\ last.calls > 0) =>
        /\ LastCall.batch.metrics = last.before
        /\ buffer = << >>
        /\ DrainAll(buffer).metrics = << >>
        /\ DrainAll(buffer).buffer = << >>

\* A flush drained a buffer of several samples.
C3_Witness ==
    /\ last.op = "flush"
    /\ last.calls = 1
    /\ Len(last.before) >= 2
    /\ buffer = << >>

\* C4: a flush tick that finds the buffer empty returns Ok, calls
\* send_metrics not at all and changes neither buffer nor resource id,
\* whatever the resource id and the API key are.
C4_FlushEmptyIsNoOp ==
    [][(FlushTick /\ buffer = << >>) =>
          /\ last'.result = "Ok"
          /\ last'.calls = 0
          /\ sent_log' = sent_log
          /\ buffer' = buffer
          /\ resource_id' = resource_id]_vars

\* A flush tick found the buffer empty with an API key set and no resource
\* id resolved.
C4_Witness ==
    /\ last.op = "flush"
    /\ last.before = << >>
    /\ last.result = "Ok"
    /\ api_key
    /\ resource_id = None

\* C5: a flush of a non-empty buffer with no resource id and no API key
\* hands the client one batch tagged "test-resource-id" holding the buffered
\* samples, and returns Ok when the endpoint accepts it.
C5_FlushUsesSentinel ==
    (FlushedNonEmpty /\ resource_id = None /\ ~api_key) =>
        /\ last.calls = 1
        /\ LastCall.batch.server_id = "test-resource-id"
        /\ LastCall.batch.metrics = last.before
        /\ (LastCall.reply = "Ok" => last.result = "Ok")

\* Such a flush was accepted by the endpoint.
C5_Witness ==
    /\ FlushedNonEmpty
    /\ resource_id = None
    /\ ~api_key
    /\ last.calls = 1
    /\ LastCall.reply = "Ok"
    /\ last.result = "Ok"

\* C6: a flush of a non-empty buffer with no resource id while an API key is
\* set fails with the Configuration error, calls send_metrics not at all,
\* and the loop goes on servicing collection and flush ticks.
C6_FlushMissingIdFails ==
    (FlushedNonEmpty /\ resource_id = None /\ api_key) =>
        /\ last.result = "Configuration"
        /\ last.calls = 0
        /\ pc = "Running"
        /\ ENABLED CollectTickErr
        /\ ENABLED CollectTickOk
        /\ ENABLED FlushTick

\* Such a flush failed.
C6_Witness ==
    /\ FlushedNonEmpty
    /\ resource_id = None
    /\ api_key
    /\ last.result = "Configuration"

C8_FailedFlushLeavesBuffer ==
    (last.op = "flush" /\ last.result = "Configuration") => buffer = last.before

\* A flush failed with several samples buffered.
C8_Witness ==
    /\ last.op = "flush"
    /\ last.result = "Configuration"
    /\ Len(last.before) >= 2
    /\ buffer = last.before

\* C9: a flush tick calls send_metrics at most once; a failed send is not
\* tried again in that tick and the loop goes on servicing later ticks.
C9_AtMostOneSendPerTick ==
    /\ last.op = "flush" => last.calls <= 1
    /\ last.op # "flush" => last.calls = 0
    /\ (last.op = "flush" /\ last.result = "Api") =>
           /\ last.calls = 1
           /\ LastCall.reply # "Ok"
           /\ pc = "Running"
           /\ ENABLED CollectTickOk
           /\ ENABLED FlushTick

\* A send failed.
C9_Witness ==
    /\ last.op = "flush"
    /\ last.result = "Api"
    /\ last.calls = 1
    /\ pc = "Running"

\* C10: when send_metrics fails the batch is dropped: the buffer is empty
\* right after the failed flush, and the samples of a batch whose send
\* failed are neither buffered again nor part of a later batch.
C10_FailedSendDropsBatch ==
    /\ (last.op = "flush" /\ last.result = "Api") => buffer = << >>
    /\ \A i \in 1..Len(sent_log) :
           sent_log[i].reply # "Ok" =>
               \A s \in Range(sent_log[i].batch.metrics) :
                   /\ s \notin Range(buffer)
                   /\ CallsWith(s) = {i}

\* After a failed send, later samples were collected and sent.
C10_Witness ==
    /\ Len(sent_log) >= 2
    /\ sent_log[1].reply # "Ok"
    /\ Len(sent_log[1].batch.metrics) >= 2

\* C11: a collection tick whose metric source fails leaves buffer and
\* resource id as they were and the loop Running, still servicing collection
\* and flush ticks; a successful collection puts exactly the returned samples
\* at the back of the buffer.
C11_CollectionFailureIsHarmless ==
    /\ [][CollectTickErr =>
             /\ buffer' = buffer
             /\ resource_id' = resource_id
             /\ sent_log' = sent_log
             /\ pc' = "Running"]_vars
    /\ []((last.op = "collect" /\ last.result = "MetricCollection") =>
             /\ buffer = last.before
             /\ pc = "Running"
             /\ ENABLED CollectTickErr
             /\ ENABLED CollectTickOk
             /\ ENABLED FlushTick)
    /\ []((last.op = "collect" /\ last.result = "Ok") =>
             LET k == Min(Len(last.pushed), Capacity)
                 m == Len(buffer)
                 n == Len(last.pushed)
             IN /\ m >= k
                /\ SubSeq(buffer, m - k + 1, m) = SubSeq(last.pushed, n - k + 1, n)
                /\ Range(buffer) \subseteq Range(last.before) \cup Range(last.pushed)
                /\ (n = 0 => buffer = last.before))

\* A collection failed with samples buffered, and the loop is Running.
C11_Witness ==
    /\ last.op = "collect"
    /\ last.result = "MetricCollection"
    /\ buffer # << >>
    /\ pc = "Running"

\* C12: the scheduler moves only Idle -> Registering -> Running;
\* register_resource runs exactly once in a process run, before any tick is
\* serviced (nothing is pushed or transmitted before Running); whatever load,
\* registration call and save come to, the run reaches Running and stays.
C12_RegistrationThenRunning ==
    /\ [][pc' # pc => \/ (pc = "Idle" /\ pc' = "Registering")
                      \/ (pc = "Registering" /\ pc' = "Running")]_vars
    /\ [][reg' # reg => (pc = "Registering" /\ reg.ran = 0 /\ reg'.ran = 1)]_vars
    /\ [](pc \in {"Idle", "Registering"} =>
             (reg.ran = 0 /\ buffer = << >> /\ sent_log = << >> /\ last = NoTick))
    /\ [](pc = "Running" => reg.ran = 1)
    /\ [][Register => pc' = "Running"]_vars
    /\ <>[](pc = "Running")

\* Running was reached after a registration call that failed, and a flush
\* tick was serviced there.
C12_Witness ==
    /\ pc = "Running"
    /\ reg.ran = 1
    /\ reg.call = "Err"
    /\ last.op = "flush"

\* C13: with no API key register_resource does nothing: no state file is
\* read (a stored resource id is not adopted), no registration call is made,
\* no file is written, the resource id stays unresolved, and every batch
\* handed to the client carries "test-resource-id".
C13_NoKeySkipsRegistration ==
    /\ [][(Register /\ ~api_key) =>
             /\ files' = files
             /\ reg_calls' = reg_calls
             /\ resource_id' = None
             /\ reg'.loaded = "Skipped"
             /\ reg'.call = "NoCall"
             /\ reg'.saved = "NoSave"]_vars
    /\ [](~api_key =>
             /\ resource_id = None
             /\ reg_calls = 0
             /\ \A i \in 1..Len(sent_log) :
                    sent_log[i].batch.server_id = "test-resource-id")

\* With no API key and a state file stored at the first candidate path, a
\* batch was handed to the client.
C13_Witness ==
    /\ ~api_key
    /\ pc = "Running"
    /\ files[1].kind = "state"
    /\ sent_log # << >>

\* C14: with an API key, when load returns a stored ResourceState its
\* resource id is adopted, no registration call is made and no state file is
\* written, also when the stored boot time differs from the current one.
C14_StoredStateIsAdopted ==
    [][(Register /\ api_key /\ Load(files).tag = "Some") =>
          /\ resource_id' = Load(files).resource_id
          /\ reg_calls' = reg_calls
          /\ reg'.call = "NoCall"
          /\ files' = files]_vars

\* A stored state written under an earlier boot was adopted.
C14_Witness ==
    /\ api_key
    /\ pc = "Running"
    /\ reg.loaded = "Some"
    /\ reg_calls = 0
    /\ \E i \in PathIdx :
           /\ files[i].kind = "state"
           /\ files[i].boot_time # session.boot_time
           /\ resource_id = files[i].resource_id

\* The runs whose register_resource has completed, the current one last.
AllRuns == runs \o (IF reg.ran = 1 THEN <<RunSummary>> ELSE << >>)

\* C15: a process run makes at most one registration call, and none when
\* load returned a stored state; when the first run registered and saved its
\* state and every later start reads a stored state, one registration call
\* is made in total and every run uses the resource id of the first.
C15_AtMostOneRegistration ==
    LET rs == AllRuns IN
    /\ reg_calls <= 1
    /\ \A j \in 1..Len(rs) :
           /\ rs[j].reg_calls <= 1
           /\ (rs[j].loaded = "Some" => rs[j].reg_calls = 0)
    /\ (/\ Len(rs) >= 1
        /\ rs[1].call = "Ok"
        /\ rs[1].saved = "Ok"
        /\ \A j \in 2..Len(rs) : rs[j].loaded = "Some") =>
           /\ SumCalls(rs) = 1
           /\ \A j \in 1..Len(rs) : rs[j].resource_id = rs[1].resource_id

\* The first run registered and saved; the two runs after it, one of them
\* after a reboot, read the state back, and the third has sent a batch.
C15_Witness ==
    /\ Len(runs) = 2
    /\ runs[1].call = "Ok"
    /\ runs[1].saved = "Ok"
    /\ runs[2].loaded = "Some"
    /\ reg.loaded = "Some"
    /\ resource_id = runs[1].resource_id
    /\ sent_log # << >>

\* C16: with an API key, when load fails with a read or parse error
\* register_resource goes on as when no state is found: startup is not
\* aborted and one registration call is made, whose outcome decides the
\* resource id as in the not-found case.
C16_LoadErrorRegistersAnew ==
    [][(Register /\ api_key /\ Load(files).tag = "Err") =>
          /\ pc' = "Running"
          /\ reg_calls' = reg_calls + 1
          /\ reg'.call \in {"Ok", "Err"}
          /\ (reg'.call = "Ok" =>
                 resource_id' = NextAssignedId /\ reg'.saved \in {"Ok", "Err"})
          /\ (reg'.call = "Err" =>
                 resource_id' = None /\ files' = files /\ reg'.saved = "NoSave")]_vars

\* After a load error the resource was registered and the loop is running.
C16_Witness ==
    /\ api_key
    /\ pc = "Running"
    /\ reg.loaded = "Err"
    /\ reg.call = "Ok"
    /\ reg_calls = 1
    /\ resource_id = AssignedResourceId

\* C17: when the registration call succeeds and saving the state fails at
\* every candidate path, the run still reaches Running, every batch of the run
\* carries the id just obtained, and the next process start makes a new
\* registration call.
C17_SaveFailureReregisters ==
    LET rs == AllRuns IN
    /\ (reg.call = "Ok" /\ reg.saved = "Err") =>
           /\ pc = "Running"
           /\ resource_id # None
           /\ \A i \in 1..Len(sent_log) :
                  sent_log[i].batch.server_id = resource_id
    /\ \A j \in 1..(Len(rs) - 1) :
           (rs[j].call = "Ok" /\ rs[j].saved = "Err") => rs[j + 1].reg_calls = 1

\* C18: when the registration call fails the run goes on to Running with no
\* resource id and no state file written; every flush of a non-empty buffer
\* in that run fails and hands nothing to the client; after a failed
\* registration only a run whose own registration call, or that of a run
\* before it, succeeded gets a batch to the client.
C18_FailedRegistrationBlocksFlush ==
    /\ [][(Register /\ api_key /\ reg'.call = "Err") =>
             /\ pc' = "Running"
             /\ resource_id' = None
             /\ files' = files]_vars
    /\ [](reg.call = "Err" =>
             /\ resource_id = None
             /\ sent_log = << >>
             /\ (FlushedNonEmpty =>
                    last.result = "Configuration" /\ last.calls = 0))
    /\ [](\A j \in 1..Len(runs) :
             (runs[j].call = "Err" /\ sent_log # << >>) =>
                 \/ reg.call = "Ok"
                 \/ \E i \in (j + 1)..Len(runs) : runs[i].call = "Ok")

\* The first run failed to register and a flush of it failed; the next run
\* registered and a flush of it succeeded.
C18_Witness ==
    /\ Len(runs) = 1
    /\ runs[1].call = "Err"
    /\ reg.call = "Ok"
    /\ last.op = "flush"
    /\ last.result = "Ok"
    /\ sent_log # << >>

\* Every attempt of the step-by-step save ends as try_save_to_path does in
\* one of its three modes: the atomic TrySaveToPath of the agent loses no
\* outcome of the code.
TrySaveToPathCoversSteps ==
    \A k \in 1..Len(saver.attempts) :
        LET a == saver.attempts[k] IN
        \E m \in {"rw", "ro", "noperm"} :
            LET r == TrySaveToPath(saver.start, [j \in PathIdx |-> m], a.idx,
                                   saver.content)
            IN r.ok = a.ok /\ r.files[a.idx] = a.after

\* C19: while a ResourceState is being saved, a concurrent reader calling
\* load() never observes a partially written state file at a candidate path:
\* at every instant each candidate path has no file, or holds the complete
\* previous content, or the complete new content.
C19_NoPartialStateFile ==
    /\ \A i \in PathIdx : files[i].kind # "partial"
    /\ saver.saves > 0 =>
           \A i \in PathIdx : \/ files[i] = AbsentFile
                               \/ files[i] = saver.start[i]
                               \/ files[i] = saver.content
    /\ observed.kind # "partial"
    /\ observed.tag = "Err" => observed.kind = "corrupt"

\* The reader loaded while the temporary file of the first attempt was created
\* and not yet written, over an existing state file: it got the previous
\* state whole.
C19_Witness ==
    /\ saver.saves = 1 /\ saver.idx = 1 /\ saver.pc = "write"
    /\ tmp[1] = PartialFile
    /\ saver.start[1].kind = "state"
    /\ files[1] = saver.start[1]
    /\ observed.at = "write"
    /\ observed.tag = "Some"
    /\ observed.resource_id = saver.start[1].resource_id

\* C20: a save attempt at a candidate path that fails, at whatever step
\* (directory creation, temp-file create, write, sync, rename, permission
\* restriction), leaves the file at that path unchanged: whenever
\* try_save_to_path reports an error for a path, the content readable there is
\* the content from before the attempt.
C20_FailedAttemptLeavesFile ==
    \A k \in 1..Len(saver.attempts) :
        ~saver.attempts[k].ok =>
            saver.attempts[k].after = saver.attempts[k].before

\* The candidate paths that hold a file.
Existing == {i \in PathIdx : files[i].kind # "absent"}
FirstExisting == CHOOSE i \in Existing : \A j \in Existing : i <= j
SaveReturned == saver.saves > 0 /\ saver.pc = "idle"

\* C21: save(state) followed by load() returns the state that was saved, for
\* every starting file-system state, also when the highest-priority path is
\* unwritable, with or without an older state file there, and the write
\* lands on a fallback path.
C21_SaveThenLoadRoundTrips ==
    (SaveReturned /\ saver.result = "Ok") =>
        LET r == Load(files) IN
        /\ r.tag = "Some"
        /\ r.resource_id = saver.content.resource_id
        /\ r.boot_time = saver.content.boot_time

\* C22: save tries the candidates in priority order and stops at the first
\* attempt that succeeds, writing no lower-priority path after it; it reports
\* success if any candidate succeeds, and failure only if every candidate
\* fails, with the error of the last candidate attempted.
C22_SaveFirstSuccessLastError ==
    saver.saves > 0 =>
        LET n == Len(saver.attempts) IN
        /\ \A k \in 1..n : saver.attempts[k].idx = k
        /\ \A k \in 1..n : saver.attempts[k].ok => k = n /\ saver.pc = "idle"
        /\ saver.pc # "idle" => saver.idx = n + 1 /\ saver.result = "none"
        /\ SaveReturned =>
               /\ n >= 1
               /\ saver.result = (IF saver.attempts[n].ok THEN "Ok" ELSE "Err")
               /\ saver.result = "Ok" =>
                      \A i \in PathIdx : i > n => files[i] = saver.start[i]
               /\ saver.result = "Err" =>
                      /\ n = Len(Paths)
                      /\ \A k \in 1..n : ~saver.attempts[k].ok
                      /\ saver.last_error = saver.attempts[n].err
                      /\ saver.last_error.idx = Len(Paths)

\* save failed at every candidate, at the first for the directory and at the
\* last for the permissions: it returned the error of the last.
C22_Witness ==
    /\ SaveReturned /\ saver.result = "Err"
    /\ saver.attempts[1].err.kind = "CreateDirectoryError"
    /\ saver.attempts[3].err.kind = "PermissionError"
    /\ saver.last_error = StateError("PermissionError", 3)

\* C23: load examines the candidates in priority order, skips every path
\* with no file, and returns the ResourceState parsed from the first
\* candidate that holds a file; it returns None, not an error, when no
\* candidate holds a file.
C23_LoadFirstExistingFile ==
    LET r == Load(files) IN
    /\ Existing = {} => r.tag = "None"
    /\ (Existing # {} /\ files[FirstExisting].kind = "state") =>
           r = [tag |-> "Some", resource_id |-> files[FirstExisting].resource_id,
                boot_time |-> files[FirstExisting].boot_time]
    /\ observed # NoObservation =>
           observed.tag = r.tag /\ observed.resource_id = r.resource_id

\* Nothing at the first path, different states at the second and the third:
\* the reader got the one at the second.
C23_Witness ==
    /\ files[1].kind = "absent"
    /\ files[2].kind = "state" /\ files[3].kind = "state"
    /\ files[2].resource_id # files[3].resource_id
    /\ observed.tag = "Some"
    /\ observed.resource_id = files[2].resource_id

\* C24: when a higher-priority candidate holds a file that cannot be read or
\* parsed and a lower-priority one a valid state file, load does not return
\* None: the error on the existing file is returned to the caller, the file
\* is not skipped.
C24_LoadSurfacesParseError ==
    LET r == Load(files) IN
    (Existing # {} /\ files[FirstExisting].kind # "state") =>
        /\ r.tag = "Err"
        /\ observed # NoObservation => observed.tag = "Err"

\* An unparsable file at the first path and a valid state at the second: the
\* reader got the error.
C24_Witness ==
    /\ files[1].kind = "corrupt"
    /\ files[2].kind = "state"
    /\ observed.tag = "Err"

\* C25: at every instant at which a state file with the new content is at
\* its final candidate path, its permissions are owner-only (0600).
C25_NewContentIsOwnerOnly ==
    saver.saves > 0 =>
        \A i \in PathIdx : files[i] = saver.content => perms[i] = "0600"

\* The cache file the last get_access_token call found was a token that had
\* not expired when the call was made.
CacheWasValid ==
    /\ last_token_call.before.kind = "token"
    /\ last_token_call.at < last_token_call.before.expires_at
TokenCallMade == last_token_call.result # "NotRun"

\* C26: get_access_token makes no token-endpoint request when the cache file
\* is present, parseable and not expired, and returns exactly the cached
\* token; it makes exactly one request when the cache file is absent,
\* unparseable or expired.
C26_RequestOnlyWithoutValidCache ==
    TokenCallMade =>
        /\ CacheWasValid =>
               /\ last_token_call.requests = 0
               /\ last_token_call.result = "Ok"
               /\ last_token_call.token = last_token_call.before.access_token
        /\ ~CacheWasValid => last_token_call.requests = 1
        /\ token_requests <= token_calls

\* The second call found the token the first call had requested and cached,
\* and asked nothing of the endpoint.
C26_Witness ==
    /\ token_calls = 2 /\ token_requests = 1
    /\ CacheWasValid
    /\ last_token_call.from = "cache"
    /\ last_token_call.token = IssuedToken(1)

\* C27: of sequential get_access_token calls made before the stored expiry
\* of the token obtained first, only the obtaining call reaches the endpoint
\* and every call returns that token: a call made while the token obtained
\* last is before its stored expiry makes no request and returns it.
C27_OneRequestPerValidityWindow ==
    (/\ TokenCallMade
     /\ last_token_call.window # NoToken
     /\ last_token_call.at < last_token_call.window.expires_at) =>
        /\ last_token_call.requests = 0
        /\ last_token_call.result = "Ok"
        /\ last_token_call.token = last_token_call.window.access_token
        /\ last_token_call.after = last_token_call.before

\* Three calls, the clock advanced between them, all before the stored
\* expiry of the token the first call obtained: one request in all.
C27_Witness ==
    /\ token_calls = 3 /\ token_requests = 1
    /\ last_token_call.window.access_token = IssuedToken(1)
    /\ last_token_call.token = IssuedToken(1)
    /\ last_token_call.at > StartTime
    /\ last_token_call.at < last_token_call.window.expires_at

\* C28: get_access_token never returns a token taken from the cache whose
\* stored expiry is at or before the current time; a cached token with
\* expiry <= now is treated as invalid and replaced by a newly requested one
\* on that same access.
C28_NoExpiredTokenFromCache ==
    TokenCallMade =>
        /\ last_token_call.from = "cache" =>
               last_token_call.before.expires_at > last_token_call.at
        /\ (/\ last_token_call.before.kind = "token"
            /\ last_token_call.before.expires_at <= last_token_call.at) =>
               /\ last_token_call.requests = 1
               /\ last_token_call.token # last_token_call.before.access_token
               /\ last_token_call.result = "Ok" =>
                      /\ last_token_call.from = "endpoint"
                      /\ last_token_call.after.kind = "token"
                      /\ last_token_call.after.access_token = last_token_call.token
                      /\ last_token_call.after # last_token_call.before

\* The cached token expired at the very second of the call: a new one was
\* requested, returned and stored.
C28_Witness ==
    /\ last_token_call.before.kind = "token"
    /\ last_token_call.before.expires_at = last_token_call.at
    /\ last_token_call.result = "Ok"
    /\ last_token_call.from = "endpoint"
    /\ last_token_call.after.access_token = last_token_call.token
    /\ cache = last_token_call.after

\* C29: when the token request succeeds and writing the cache file fails (at
\* the directory creation, the write or the permission restriction),
\* get_access_token returns a storage error and not the token.
C29_CacheFailureIsReturned ==
    (/\ TokenCallMade
     /\ last_token_call.request = "Ok"
     /\ last_token_call.store # "Ok") =>
        /\ last_token_call.result = "Storage"
        /\ last_token_call.token = None
        /\ last_token_call.from = "none"

\* The request succeeded and the permissions of the written cache file could
\* not be restricted: the call returned the storage error.
C29_Witness ==
    /\ last_token_call.request = "Ok"
    /\ last_token_call.store = "Permissions"
    /\ last_token_call.result = "Storage"
    /\ last_token_call.token = None
    /\ last_token_call.after.kind = "token"
    /\ last_token_call.after.access_token # last_token_call.before.access_token

\* C30: is_consistent_with returns inconsistent whenever the boot times
\* differ, whatever the other fields; consistent whenever the boot times are
\* equal and the process-start times differ, whatever the uptimes; and with
\* both equal, consistent exactly when the current uptime is within the
\* tolerance of the previous uptime plus the elapsed time.
C30_SessionComparison ==
    cmp.ran =>
        LET c == cmp.self
            p == cmp.previous
            e == cmp.elapsed_seconds
        IN /\ c.boot_time # p.boot_time => cmp.result = FALSE
           /\ (c.boot_time = p.boot_time
                /\ c.agent_start_time # p.agent_start_time) =>
                  cmp.result = TRUE
           /\ (c.boot_time = p.boot_time
                /\ c.agent_start_time = p.agent_start_time) =>
                  (cmp.result <=>
                      (/\ c.uptime_seconds - (p.uptime_seconds + e) <= Tolerance(e)
                       /\ (p.uptime_seconds + e) - c.uptime_seconds <= Tolerance(e)))

\* Same boot, another process start, an uptime far from the expected one:
\* consistent, as a restart of the agent.
C30_Witness ==
    /\ cmp.ran
    /\ cmp.self.boot_time = cmp.previous.boot_time
    /\ cmp.self.agent_start_time # cmp.previous.agent_start_time
    /\ cmp.self.uptime_seconds = 0
    /\ cmp.previous.uptime_seconds = MaxUptime
    /\ cmp.elapsed_seconds = MaxElapsed
    /\ cmp.result = TRUE

\* C32: a successful flush of a non-empty buffer hands the client one batch
\* whose samples are the buffer content at the start of the flush, in the
\* same order, tagged with the resolved resource id (or the sentinel) and the
\* agent's hostname, and leaves the buffer empty.
C32_FlushedBatchIsBufferContent ==
    (FlushedNonEmpty /\ last.result = "Ok") =>
        /\ last.calls = 1
        /\ LastCall.reply = "Ok"
        /\ LastCall.batch =
               [server_id |-> IF resource_id # None THEN resource_id
                              ELSE TestResourceId,
                hostname |-> Hostname,
                metrics |-> last.before]
        /\ resource_id = None => ~api_key
        /\ buffer = << >>

\* A registered agent flushed several samples and the endpoint accepted.
C32_Witness ==
    /\ FlushedNonEmpty /\ last.result = "Ok"
    /\ api_key /\ resource_id = AssignedResourceId
    /\ Len(last.before) >= 2
    /\ LastCall.batch.server_id = AssignedResourceId
    /\ LastCall.batch.hostname = Hostname

\* C36: no collected sample is ever in more than one batch handed to the
\* client, whether the earlier send succeeded or failed.
C36_SampleInAtMostOneBatch ==
    /\ \A s \in 1..MaxSamples : Cardinality(CallsWith(s)) <= 1
    /\ \A i \in 1..Len(sent_log) :
           Cardinality(Range(sent_log[i].batch.metrics)) =
               Len(sent_log[i].batch.metrics)

\* Three batches were handed over, the first refused, the second accepted.
C36_Witness ==
    /\ Len(sent_log) >= 3
    /\ sent_log[1].reply # "Ok"
    /\ sent_log[2].reply = "Ok"

\* C37: with an API key configured no batch is sent with the sentinel id:
\* every batch carries the resource id of the loaded ResourceState or of this
\* run's successful registration response, the same for all batches of the
\* run.
C37_KeyedBatchesCarryResourceId ==
    api_key =>
        \A i \in 1..Len(sent_log) :
            LET id == sent_log[i].batch.server_id IN
            /\ id # TestResourceId
            /\ id = resource_id
            /\ \/ reg.loaded = "Some" /\ id = Load(files).resource_id
               \/ reg.call = "Ok" /\ id = AssignedResourceId
            /\ \A j \in 1..Len(sent_log) : sent_log[j].batch.server_id = id

\* Two batches went out under the id of this run's registration.
C37_Witness ==
    /\ api_key /\ reg.call = "Ok"
    /\ Len(sent_log) >= 2
    /\ sent_log[1].batch.server_id = AssignedResourceId
    /\ sent_log[2].batch.server_id = AssignedResourceId

\* C38: every batch handed to the client is non-empty and holds at most
\* capacity (batch_size) samples.
C38_BatchSizeWithinCapacity ==
    \A i \in 1..Len(sent_log) :
        /\ Len(sent_log[i].batch.metrics) >= 1
        /\ Len(sent_log[i].batch.metrics) <= Capacity

\* A batch went out full, after an overflow had evicted the oldest sample.
C38_Witness ==
    /\ Capacity >= 2
    /\ \E i \in 1..Len(sent_log) :
           /\ Len(sent_log[i].batch.metrics) = Capacity
           /\ 1 \notin Range(sent_log[i].batch.metrics)
           /\ CallsWith(1) = {}
    /\ 1 \notin Range(buffer)

\* C33: the uptime tolerance is 10% of the elapsed seconds with a minimum of
\* 5 seconds, max(elapsed/10, 5): with equal boot and process-start times
\* the comparison reports consistent if and only if
\* |current uptime - (previous uptime + elapsed)| <= max(elapsed/10, 5).
C33_ToleranceIsTenPercentOrFive ==
    (/\ cmp.ran
     /\ cmp.self.boot_time = cmp.previous.boot_time
     /\ cmp.self.agent_start_time = cmp.previous.agent_start_time) =>
        LET e == cmp.elapsed_seconds
            expected == cmp.previous.uptime_seconds + e
            diff == IF cmp.self.uptime_seconds >= expected
                    THEN cmp.self.uptime_seconds - expected
                    ELSE expected - cmp.self.uptime_seconds
            tenth == e \div 10
        IN cmp.result <=> (diff <= IF tenth >= 5 THEN tenth ELSE 5)

\* C40: every configuration accepted by validation yields two strictly
\* positive timer periods, collection interval > 0 and flush interval
\* (flush_interval_seconds, default 10) > 0, so that entering Running never
\* fails on timer construction.
C40_ValidatedPeriodsArePositive ==
    (config.read /\ config.verdict = "Ok") =>
        /\ config.file.interval_seconds > 0
        /\ GetFlushIntervalSeconds(config.file) > 0
        /\ config.timers # "Panic"

\* C34: the absolute expiry stored with a cached credential equals the time
\* the token request was made plus the server-declared lifetime minus the
\* 60-second safety margin, so a cached token is never served later than 60
\* seconds before the expiry the server counts from receiving the request.
C34_StoredExpiryCountsFromRequest ==
    (TokenCallMade /\ last_token_call.from = "endpoint") =>
        last_token_call.after.expires_at =
            last_token_call.at + last_token_call.expires_in - SafetyBuffer

\* C35: the "check cache, then possibly request and write" sequence of
\* get_access_token is mutually exclusive among callers sharing a cache
\* file: no two callers are inside it at once, at most one token request is
\* sent when the token cached outlasts the calls, no two cache-file writes
\* are open together and no caller parses a file another is still writing.
C35_CheckRequestWriteIsExclusive ==
    LET InSequence(c) == callers[c].pc \in {"Request", "Cache", "Write"} IN
    callers # NoCallers =>
        /\ \A c, d \in Callers : (InSequence(c) /\ InSequence(d)) => c = d
        /\ token_requests <= 1
        /\ \A c, d \in Callers : (Writing(c) /\ Writing(d)) => c = d
        /\ \A c \in Callers : ~callers[c].torn

\* A resource id can be resolved by flush_buffer: a registered id is
\* present, or no credentials are configured.
Resolvable == resource_id # None \/ ~api_key
\* The samples handed to the client so far.
HandedOver == UNION {Range(sent_log[i].batch.metrics) : i \in 1..Len(sent_log)}

\* C39: with flush ticks that keep firing and a resolvable resource id,
\* the buffer is empty infinitely often and every non-empty buffer is
\* followed by an empty one, so every sample in it eventually leaves it;
\* and a sample leaves only evicted by the overflow of a push or handed to
\* the transmission client.
C39_BufferDrainsInfinitelyOften ==
    /\ []<>((pc = "Running" /\ Resolvable) => buffer = << >>)
    /\ (pc = "Running" /\ Resolvable /\ buffer # << >>) ~> (buffer = << >>)
    /\ [][\A s \in Range(buffer) \ Range(buffer') :
              \/ last'.op = "collect" /\ Len(last'.pushed) > 0
                     /\ Len(buffer) + Len(last'.pushed) > Capacity
              \/ last'.op = "flush" /\ s \in HandedOver']_vars

\* A running agent without credentials collected samples, and the flush
\* tick that followed handed them over under the sentinel id and left the
\* buffer empty, although the endpoint was not reachable.
C39_Witness ==
    /\ pc = "Running" /\ Resolvable /\ ~api_key
    /\ last.op = "flush" /\ last.result = "Api"
    /\ Len(last.before) >= 2
    /\ Range(last.before) \subseteq HandedOver
    /\ buffer = << >>

\* C31: the two timers may be due together but their handlers never
\* interleave: a trigger is serviced only when no handler is running, from
\* a flush's drain to the end of its transmission nothing is pushed into
\* the buffer, and nothing is drained or sent in the middle of a push.
C31_HandlersNeverInterleave ==
    /\ [](in_flight # NoBatch => (pc = "Sending" /\ buffer = << >>))
    /\ [][(pc # "Select" /\ due' # due) => due \subseteq due']_vars
    /\ [][in_flight # NoBatch => buffer' = buffer]_vars
    /\ [][pc = "Trimming" =>
              /\ \/ buffer' = buffer
                 \/ buffer # << >> /\ buffer' = Tail(buffer)
              /\ UNCHANGED <<in_flight, sent_log>>]_vars

\* Both timers came due while a flush was awaiting its transmission.
C31_Witness ==
    /\ pc = "Sending"
    /\ in_flight # NoBatch
    /\ Len(in_flight[1].metrics) >= 2
    /\ due = Timers
    /\ sent_log # << >>

====
